---- MODULE Spec2Model ----
(***************************************************************************)
(* eslint-plugin-no-truthy-collections: the rule "no-truthy-collections".  *)
(*                                                                         *)
(* The repository holds two implementations of the rule:                   *)
(*   "enhanced"  - src/unnamed/part_006 (syntactic tiers, exact names,     *)
(*                 validation-pattern suppression, `!` visitor);           *)
(*   "typeaware" - src/lib/rules/no-truthy-collections.js (type checker    *)
(*                 query, naming heuristic, Boolean() visitor).            *)
(* The model holds both: `impl` says which module's create() built the     *)
(* visitor.  ESLint walks the tree and calls one visitor handler per node; *)
(* an action of the model is one handler call on one syntax node, and the  *)
(* state records what that call analysed and reported.                     *)
(*                                                                         *)
(* Source text is a TLA+ string; getText(node) is the node's rendering.    *)
(***************************************************************************)
EXTENDS Integers, Sequences, FiniteSets, TLC

VARIABLES impl, config, hasTypeInfo, handler, site, checks, visited, fixed

vars == <<impl, config, hasTypeInfo, handler, site, checks, visited, fixed>>

(***************************************************************************)
(* Bounds of the model.                                                    *)
(***************************************************************************)
\* longest array literal
MaxElems == 2
\* most properties of an object literal
MaxProps == 1

(***************************************************************************)
(* Syntax nodes (ESTree).  A node is a record with a "type" field.         *)
(***************************************************************************)
\* JS null / undefined where a node is expected
NoNode == [type |-> "<null>"]
\* JS undefined where a name is expected
NoName == ""

Ident(n) == [type |-> "Identifier", name |-> n]
Lit(raw) == [type |-> "Literal", raw |-> raw]
Spread(a) == [type |-> "SpreadElement", argument |-> a]
Arr(es) == [type |-> "ArrayExpression", elements |-> es]
Prop(k, v) == [type |-> "Property", key |-> Ident(k), value |-> v]
Obj(ps) == [type |-> "ObjectExpression", properties |-> ps]
New(c, as) == [type |-> "NewExpression", callee |-> c, arguments |-> as]
Call(c, as) == [type |-> "CallExpression", callee |-> c, arguments |-> as]
Arrow == [type |-> "ArrowFunctionExpression"]
\* object.property, object?.property, object[property]
Member(o, p) ==
  [type |-> "MemberExpression", object |-> o, property |-> p,
   computed |-> FALSE, optional |-> FALSE]
OptMember(o, p) ==
  [type |-> "MemberExpression", object |-> o, property |-> p,
   computed |-> FALSE, optional |-> TRUE]
Index(o, p) ==
  [type |-> "MemberExpression", object |-> o, property |-> p,
   computed |-> TRUE, optional |-> FALSE]
Binary(l, op, r) ==
  [type |-> "BinaryExpression", left |-> l, operator |-> op, right |-> r]
Unary(op, a) == [type |-> "UnaryExpression", operator |-> op, argument |-> a]
Logical(l, op, r) ==
  [type |-> "LogicalExpression", left |-> l, operator |-> op, right |-> r]
Conditional(t) == [type |-> "ConditionalExpression", test |-> t]
Stmt(ty, t) == [type |-> ty, test |-> t]
\* a node of which only the source text its range spans matters
Spanning(text) == [type |-> "Spanning", text |-> text]

\* optional chaining: n?.f for a node-valued field
Fld(n, f) == IF f \in DOMAIN n THEN n[f] ELSE NoNode
\* n?.name
NameOf(n) == IF "name" \in DOMAIN n THEN n.name ELSE NoName
\* n?.operator
OpOf(n) == IF "operator" \in DOMAIN n THEN n.operator ELSE NoName
\* n?.optional === true
IsOptional(n) == IF "optional" \in DOMAIN n THEN n.optional ELSE FALSE

(***************************************************************************)
(* sourceCode.getText(node): the slice of the source the node spans, here  *)
(* the node's rendering.                                                   *)
(***************************************************************************)
RECURSIVE Render(_), RenderList(_)

\* the nodes of a list, comma separated; a hole renders as nothing
RenderList(ns) ==
  IF ns = <<>> THEN ""
  ELSE IF Len(ns) = 1 THEN Render(ns[1])
  ELSE Render(ns[1]) \o ", " \o RenderList(Tail(ns))

Render(n) ==
  CASE n.type = "Identifier" -> n.name
    [] n.type = "Literal" -> n.raw
    [] n.type = "SpreadElement" -> "..." \o Render(n.argument)
    [] n.type = "ArrayExpression" ->
         "[" \o RenderList(n.elements)
             \o (IF n.elements # <<>> /\ n.elements[Len(n.elements)] = NoNode
                 THEN "," ELSE "")
             \o "]"
    [] n.type = "Property" -> Render(n.key) \o ": " \o Render(n.value)
    [] n.type = "ObjectExpression" ->
         IF n.properties = <<>> THEN "{}"
         ELSE "{ " \o RenderList(n.properties) \o " }"
    [] n.type = "NewExpression" ->
         "new " \o Render(n.callee) \o "(" \o RenderList(n.arguments) \o ")"
    [] n.type = "CallExpression" ->
         Render(n.callee) \o "(" \o RenderList(n.arguments) \o ")"
    [] n.type = "ArrowFunctionExpression" -> "v => v"
    [] n.type = "MemberExpression" ->
         IF n.computed
         THEN Render(n.object) \o "[" \o Render(n.property) \o "]"
         ELSE Render(n.object) \o (IF n.optional THEN "?." ELSE ".")
                               \o Render(n.property)
    [] n.type = "BinaryExpression" ->
         Render(n.left) \o " " \o n.operator \o " " \o Render(n.right)
    [] n.type = "LogicalExpression" ->
         Render(n.left) \o " " \o n.operator \o " " \o Render(n.right)
    [] n.type = "UnaryExpression" -> n.operator \o Render(n.argument)
    [] n.type = "ConditionalExpression" -> Render(n.test) \o " ? a : b"
    [] n.type = "IfStatement" -> "if (" \o Render(n.test) \o ") {}"
    [] n.type = "WhileStatement" -> "while (" \o Render(n.test) \o ") {}"
    [] n.type = "DoWhileStatement" -> "do {} while (" \o Render(n.test) \o ")"
    [] n.type = "ForStatement" -> "for (;" \o Render(n.test) \o ";) {}"
    [] n.type = "Spanning" -> n.text
    [] OTHER -> ""

\* SourceCode#getText(node): without a node it returns the whole source text
GetText(n, root) == IF n = NoNode THEN Render(root) ELSE Render(n)

(***************************************************************************)
(* Where a node sits: its parent node, which child of the parent it is,    *)
(* and the ancestors above the parent (nearest first).                     *)
(***************************************************************************)
Ctx(parent, role, above) == [parent |-> parent, role |-> role, above |-> above]

\* node.parent.parent
GrandParent(ctx) == IF ctx.above = <<>> THEN NoNode ELSE ctx.above[1]

\* the chain node.parent, node.parent.parent, ... up to the root
Ancestors(ctx) == IF ctx.parent = NoNode THEN <<>> ELSE <<ctx.parent>> \o ctx.above

(***************************************************************************)
(* Spelling of the identifier names the model uses, for the regular        *)
(* expressions of the naming tiers.                                        *)
(***************************************************************************)
Spelling ==
  [items |-> <<"i","t","e","m","s">>,
   config |-> <<"c","o","n","f","i","g">>,
   elements |-> <<"e","l","e","m","e","n","t","s">>,
   userList |-> <<"u","s","e","r","L","i","s","t">>,
   settingsMap |-> <<"s","e","t","t","i","n","g","s","M","a","p">>,
   userData |-> <<"u","s","e","r","D","a","t","a">>,
   userInfo |-> <<"u","s","e","r","I","n","f","o">>,
   ListView |-> <<"L","i","s","t","V","i","e","w">>,
   rest |-> <<"r","e","s","t">>,
   x |-> <<"x">>]

\* the names an identifier in boolean position can have
IdentNames == DOMAIN Spelling

RECURSIVE Join(_)
\* the string a spelling spells
Join(cs) == IF cs = <<>> THEN "" ELSE Head(cs) \o Join(Tail(cs))

\* String.prototype.toLowerCase on one character
Lower(c) ==
  CASE c = "L" -> "l" [] c = "M" -> "m" [] c = "D" -> "d" [] c = "I" -> "i"
    [] c = "V" -> "v" [] c = "A" -> "a" [] c = "C" -> "c" [] c = "O" -> "o"
    [] c = "S" -> "s" [] c = "R" -> "r" [] c = "E" -> "e" [] c = "P" -> "p"
    [] OTHER -> c

\* /.*[Xx]rest$/ : the name ends with the word, its first letter in either case
EndsWith(name, word) ==
  LET cs == Spelling[name]
      k == Len(cs) - Len(word)
  IN  /\ k >= 0
      /\ cs[k + 1] \in {word[1], Lower(word[1])}
      /\ \A i \in 2..Len(word) : cs[k + i] = word[i]

\* /^word/i : the name starts with the word, case ignored
StartsWithNoCase(name, word) ==
  LET cs == Spelling[name]
  IN  /\ Len(cs) >= Len(word)
      /\ \A i \in 1..Len(word) : Lower(cs[i]) = Lower(word[i])

(***************************************************************************)
(* What analyzeNode returns.  The enhanced rule returns null for "no       *)
(* collection", the type-aware rule {type: 'unknown', confidence: 0}.      *)
(***************************************************************************)
Analysis(ty, conf, method) ==
  [type |-> ty, confidence |-> conf, method |-> method,
   suspicious |-> FALSE, element |-> NoNode]
Null == Analysis("<null>", 0, NoName)
Unknown == Analysis("unknown", 0, NoName)
\* analyzeNode left by an exception instead of a result
Raised == Analysis("<exception>", 0, NoName)

(***************************************************************************)
(* The enhanced rule: src/unnamed/part_006                                 *)
(***************************************************************************)
isInExplicitBooleanContext(ctx) ==
  LET parent == ctx.parent
      grandParent == GrandParent(ctx)
  IN  IF parent = NoNode THEN FALSE
      ELSE IF /\ parent.type = "CallExpression"
              /\ Fld(parent, "callee").type = "Identifier"
              /\ NameOf(Fld(parent, "callee")) = "Boolean"
      THEN TRUE
      ELSE IF parent.type = "UnaryExpression" /\ OpOf(parent) = "!"
      THEN grandParent.type = "UnaryExpression" /\ OpOf(grandParent) = "!"
      ELSE FALSE

isDestructuredVariable(node, ctx) ==
  IF node.type # "Identifier" THEN FALSE
  ELSE \E i \in 1..Len(Ancestors(ctx)) :
         Ancestors(ctx)[i].type \in {"ArrayPattern", "ObjectPattern", "RestElement"}

\* isProperValidationPattern without its first test, the comparison of a
\* `.length`/`.size` on the right of `&&`
isProperValidationPatternNoCompare(ctx) ==
  LET parent == ctx.parent
      right == Fld(parent, "right")
      rightProp == NameOf(Fld(right, "property"))
      parentProp == NameOf(Fld(parent, "property"))
  IN  IF parent = NoNode THEN FALSE
      ELSE
        \/ /\ parent.type = "LogicalExpression"
           /\ OpOf(parent) = "&&"
           /\ right.type = "MemberExpression"
           /\ rightProp \in {"length", "size"}
        \/ /\ parent.type = "MemberExpression"
           /\ IsOptional(parent)
           /\ parentProp \in {"size", "length"}
        \/ /\ parent.type = "MemberExpression"
           /\ ctx.role = "object"
           /\ parentProp \in {"length", "size"}

isProperValidationPattern(ctx) ==
  LET parent == ctx.parent
      right == Fld(parent, "right")
      rightProp == NameOf(Fld(right, "property"))
      rightLeftProp == NameOf(Fld(Fld(right, "left"), "property"))
      rightObject == Fld(right, "object")
      parentProp == NameOf(Fld(parent, "property"))
  IN  IF parent = NoNode THEN FALSE
      ELSE
        \/ /\ parent.type = "LogicalExpression"
           /\ OpOf(parent) = "&&"
           /\ \/ /\ right.type = "BinaryExpression"
                 /\ rightLeftProp \in {"length", "size"}
                 /\ OpOf(right) \in {">", ">="}
              \/ /\ right.type = "MemberExpression"
                 /\ rightProp \in {"length", "size"}
              \/ /\ right.type = "MemberExpression"
                 /\ rightProp = "length"
                 /\ rightObject.type = "CallExpression"
                 /\ Fld(rightObject, "callee").type = "MemberExpression"
                 /\ NameOf(Fld(Fld(rightObject, "callee"), "object")) = "Object"
                 /\ NameOf(Fld(Fld(rightObject, "callee"), "property")) = "keys"
        \/ /\ parent.type = "MemberExpression"
           /\ IsOptional(parent)
           /\ parentProp \in {"size", "length"}
        \/ /\ parent.type = "MemberExpression"
           /\ ctx.role = "object"
           /\ parentProp \in {"length", "size"}

\* the constructor list without the weak collections
StrongCtors == {"Set", "Map"}

ArrayLikeCtors == {"Set", "Map", "WeakSet", "WeakMap"}
arrayMethods == {"map", "filter", "slice", "concat", "splice", "flat", "flatMap"}
ArrayStatics == {"from", "of"}
ObjectStatics == {"create", "assign", "fromEntries", "keys", "values", "entries"}

problematicArrayProps ==
  {"roles", "tags", "items", "results", "activities", "connections", "posts",
   "comments", "notifications", "errors", "warnings", "failures", "duplicates"}
problematicObjectProps ==
  {"options", "config", "settings", "preferences", "filters", "metadata",
   "dateRange", "timeRange"}

exactArrayNames ==
  {"activities", "connections", "results", "items", "elements", "entries",
   "records", "users", "products", "files", "images", "categories", "widgets",
   "posts", "comments", "notifications", "tags", "roles", "errors", "warnings",
   "failures", "duplicates", "inactiveUsers", "userIds", "validatedWidgets",
   "recentPosts", "connectionTypes"}
exactObjectNames ==
  {"options", "config", "settings", "props", "attributes", "metadata",
   "preferences", "privacy", "dashboard", "filters", "updates", "userData",
   "userContent", "analytics", "timeRange", "dateRange", "activityGroups",
   "connectionsByType", "updatedPreferences"}

arrayPatterns ==
  {<<"L","i","s","t">>, <<"A","r","r","a","y">>, <<"I","t","e","m","s">>,
   <<"E","n","t","r","i","e","s">>, <<"R","e","c","o","r","d","s">>,
   <<"R","e","s","u","l","t","s">>, <<"C","o","l","l","e","c","t","i","o","n">>}
objectPatterns ==
  {<<"O","p","t","i","o","n","s">>, <<"C","o","n","f","i","g">>,
   <<"S","e","t","t","i","n","g","s">>, <<"O","b","j","e","c","t">>,
   <<"D","a","t","a">>, <<"I","n","f","o">>, <<"M","a","p">>}

\* tier 2 of analyzeNode: `new X(...)` and `X(...)`; falls through with Null
analyzeCall(node) ==
  LET callee == Fld(node, "callee")
      args == node.arguments
      prop == NameOf(Fld(callee, "property"))
      obj == NameOf(Fld(callee, "object"))
  IN  IF callee.type = "Identifier" /\ callee.name = "Array"
      THEN Analysis("array", 95, "constructor")
      ELSE IF callee.type = "Identifier" /\ callee.name = "Object"
      THEN Analysis("object", 95, "constructor")
      ELSE IF callee.type = "Identifier" /\ callee.name \in ArrayLikeCtors
      THEN IF Len(args) = 0
           THEN Analysis("arraylike", 80, "constructor")
           ELSE IF /\ Len(args) = 1
                   /\ args[1].type = "ArrayExpression"
                   /\ Len(args[1].elements) = 1
           THEN [type |-> "arraylike", confidence |-> 90, method |-> NoName,
                 suspicious |-> TRUE, element |-> args[1].elements[1]]
           ELSE Null
      ELSE IF /\ callee.type = "MemberExpression"
              /\ prop # NoName
              /\ prop \in arrayMethods
      THEN Analysis("array", 85, "method")
      ELSE IF /\ callee.type = "MemberExpression"
              /\ obj = "Array"
              /\ prop \in ArrayStatics
      THEN Analysis("array", 95, "static")
      ELSE IF /\ callee.type = "MemberExpression"
              /\ obj = "Object"
              /\ prop \in ObjectStatics
      THEN Analysis("object", 95, "static")
      ELSE Null


\* analyzeMember without the test of a nested object: `obj.prop.items` is
\* classified as `prop.items` would be
analyzeMemberNested(node) ==
  LET property == node.property
      propName == NameOf(property)
  IN  IF property = NoNode \/ property.type # "Identifier" THEN Null
      ELSE IF propName \in problematicArrayProps
      THEN Analysis("array", 75, "member-property")
      ELSE IF propName \in problematicObjectProps
      THEN Analysis("object", 75, "member-property")
      ELSE Null

\* tier 3 of analyzeNode: member expressions
analyzeMember(node) ==
  LET property == node.property
      propName == NameOf(property)
  IN  IF property = NoNode \/ property.type # "Identifier" THEN Null
      ELSE IF node.object.type = "MemberExpression" THEN Null
      ELSE IF propName \in problematicArrayProps
      THEN Analysis("array", 75, "member-property")
      ELSE IF propName \in problematicObjectProps
      THEN Analysis("object", 75, "member-property")
      ELSE Null

\* analyzeIdentifier with the whole variable-name tier under strictNaming,
\* the exact names too
analyzeIdentifierStrictOnly(node, ctx, cfg) ==
  LET name == node.name
  IN  IF isDestructuredVariable(node, ctx) \/ ~cfg.strictNaming THEN Null
      ELSE IF name \in exactArrayNames
      THEN Analysis("array", 85, "variable-name")
      ELSE IF name \in exactObjectNames
      THEN Analysis("object", 85, "variable-name")
      ELSE IF \E w \in arrayPatterns : EndsWith(name, w)
      THEN Analysis("array", 65, "variable-pattern")
      ELSE IF \E w \in objectPatterns : EndsWith(name, w)
      THEN Analysis("object", 65, "variable-pattern")
      ELSE Null

\* tier 4 of analyzeNode: variable names
analyzeIdentifier(node, ctx, cfg) ==
  LET name == node.name
  IN  IF isDestructuredVariable(node, ctx) THEN Null
      ELSE IF name \in exactArrayNames
      THEN Analysis("array", 85, "variable-name")
      ELSE IF name \in exactObjectNames
      THEN Analysis("object", 85, "variable-name")
      ELSE IF cfg.strictNaming /\ \E w \in arrayPatterns : EndsWith(name, w)
      THEN Analysis("array", 65, "variable-pattern")
      ELSE IF cfg.strictNaming /\ \E w \in objectPatterns : EndsWith(name, w)
      THEN Analysis("object", 65, "variable-pattern")
      ELSE Null

analyzeNode(node, ctx, cfg) ==
  IF node = NoNode THEN Null
  ELSE IF node.type = "ArrayExpression" THEN Analysis("array", 100, "literal")
  ELSE IF node.type = "ObjectExpression" THEN Analysis("object", 100, "literal")
  ELSE IF node.type \in {"NewExpression", "CallExpression"} THEN analyzeCall(node)
  ELSE IF node.type = "MemberExpression" THEN analyzeMember(node)
  ELSE IF node.type = "Identifier" THEN analyzeIdentifier(node, ctx, cfg)
  ELSE Null

(***************************************************************************)
(* context.report(...): one diagnosis.  fix is <<>> (no primary fix) or    *)
(* <<text>> (replace the node by text); suggest is the ordered list of     *)
(* alternatives, each replacing `target` by `text`.                        *)
(***************************************************************************)
Suggestion(desc, target, text) == [desc |-> desc, target |-> target, text |-> text]
Report(node, messageId, message, data, fix, suggest) ==
  [node |-> node, messageId |-> messageId, message |-> message,
   data |-> data, fix |-> fix, suggest |-> suggest]

\* the texts that are empty after String.prototype.trim
BlankTexts == {"", " ", "  "}

\* generateFix with the arraylike case missing from the switch, so that it
\* takes the default branch
generateFixNoSize(node, type, root) ==
  LET text == GetText(node, root)
  IN  IF text \in BlankTexts THEN text
      ELSE CASE type = "object" -> "Object.keys(" \o text \o ").length > 0"
             [] OTHER -> text \o ".length > 0"

generateFix(node, type, root) ==
  LET text == GetText(node, root)
  IN  IF text \in BlankTexts THEN text
      ELSE CASE type = "array" -> text \o ".length > 0"
             [] type = "object" -> "Object.keys(" \o text \o ").length > 0"
             [] type = "arraylike" -> text \o ".size > 0"
             [] OTHER -> text \o ".length > 0"

\* getMessageId without its isLogical parameter: the plain variant everywhere
getMessageIdPlain(type, isLogical) ==
  IF type = "array" THEN "arrayTruthy"
  ELSE IF type = "object" THEN "objectTruthy"
  ELSE "arrayLikeTruthy"

getMessageId(type, isLogical) ==
  IF isLogical
  THEN IF type = "array" THEN "arrayInLogical"
       ELSE IF type = "object" THEN "objectInLogical"
       ELSE "arrayLikeTruthy"
  ELSE IF type = "array" THEN "arrayTruthy"
       ELSE IF type = "object" THEN "objectTruthy"
       ELSE "arrayLikeTruthy"

shouldCheck(type, cfg) ==
  \/ type = "array" /\ cfg.checkArrays
  \/ type = "object" /\ cfg.checkObjects
  \/ type = "arraylike" /\ cfg.checkArrayLike

\* the suspicious-shape report with its alternatives in another order: the
\* size check first, the element last
suspiciousReportSizeFirst(node, calleeName, elementText, sizeFix) ==
  Report(node, "",
         "new " \o calleeName \o "([item]) always has size 1. Did you mean "
           \o "'if ({{element}})' or 'new " \o calleeName
           \o "({{element}}).size > 0'?",
         elementText, <<>>,
         <<Suggestion("Check size (current behavior): " \o sizeFix,
                      node, sizeFix),
           Suggestion("Create " \o calleeName \o " from element: new "
                        \o calleeName \o "(" \o elementText \o ").size > 0",
                      node,
                      "new " \o calleeName \o "(" \o elementText \o ").size > 0"),
           Suggestion("Check the element directly: if (" \o elementText \o ")",
                      node, elementText)>>)


\* the suspicious-shape report with the size check as its primary fix
suspiciousReportFixed(node, calleeName, elementText, sizeFix) ==
  Report(node, "",
         "new " \o calleeName \o "([item]) always has size 1. Did you mean "
           \o "'if ({{element}})' or 'new " \o calleeName
           \o "({{element}}).size > 0'?",
         elementText, <<sizeFix>>,
         <<Suggestion("Check the element directly: if (" \o elementText \o ")",
                      node, elementText),
           Suggestion("Create " \o calleeName \o " from element: new "
                        \o calleeName \o "(" \o elementText \o ").size > 0",
                      node,
                      "new " \o calleeName \o "(" \o elementText \o ").size > 0"),
           Suggestion("Check size (current behavior): " \o sizeFix,
                      node, sizeFix)>>)

\* the report of the suspicious `new Set([x])` / `new Map([x])` shape
suspiciousReport(node, calleeName, elementText, sizeFix) ==
  Report(node, "",
         "new " \o calleeName \o "([item]) always has size 1. Did you mean "
           \o "'if ({{element}})' or 'new " \o calleeName
           \o "({{element}}).size > 0'?",
         elementText, <<>>,
         <<Suggestion("Check the element directly: if (" \o elementText \o ")",
                      node, elementText),
           Suggestion("Create " \o calleeName \o " from element: new "
                        \o calleeName \o "(" \o elementText \o ").size > 0",
                      node,
                      "new " \o calleeName \o "(" \o elementText \o ").size > 0"),
           Suggestion("Check size (current behavior): " \o sizeFix,
                      node, sizeFix)>>)


\* thresholds ten above those of reportIssue
minConfidenceStrict(method) ==
  IF method = "member-property" THEN 80
  ELSE IF method = "variable-pattern" THEN 75
  ELSE 70

\* the minimum confidence reportIssue asks of an analysis
minConfidence(method) ==
  IF method = "member-property" THEN 70
  ELSE IF method = "variable-pattern" THEN 65
  ELSE 60

\* reportIssue that pushes the Boolean(...) alternative for every kind
reportIssueBooleanAlways(node, ctx, analysis, isLogical, cfg, root) ==
  LET type == analysis.type
      suggestion == generateFix(node, type, root)
      text == GetText(node, root)
  IN  IF ~shouldCheck(type, cfg) THEN <<>>
      ELSE IF isProperValidationPattern(ctx) THEN <<>>
      ELSE IF analysis.confidence < minConfidence(analysis.method) THEN <<>>
      ELSE IF cfg.allowExplicitBoolean /\ isInExplicitBooleanContext(ctx) THEN <<>>
      ELSE IF analysis.suspicious /\ analysis.element # NoNode
      THEN <<suspiciousReport(node, node.callee.name,
                              GetText(analysis.element, root), suggestion)>>
      ELSE <<Report(node, getMessageId(type, isLogical), "", suggestion,
                    <<suggestion>>,
                    <<Suggestion("Safe default: Use " \o suggestion
                                   \o " to check for items/properties",
                                 node, suggestion)>>
                    \o (IF TRUE
                        THEN <<Suggestion("Explicit coercion: Use Boolean("
                                            \o text
                                            \o ") if you really want a boolean",
                                          node, "Boolean(" \o text \o ")")>>
                        ELSE <<>>))>>

\* the sequence of context.report calls one reportIssue call makes
reportIssue(node, ctx, analysis, isLogical, cfg, root) ==
  LET type == analysis.type
      suggestion == generateFix(node, type, root)
      text == GetText(node, root)
  IN  IF ~shouldCheck(type, cfg) THEN <<>>
      ELSE IF isProperValidationPattern(ctx) THEN <<>>
      ELSE IF analysis.confidence < minConfidence(analysis.method) THEN <<>>
      ELSE IF cfg.allowExplicitBoolean /\ isInExplicitBooleanContext(ctx) THEN <<>>
      ELSE IF analysis.suspicious /\ analysis.element # NoNode
      THEN <<suspiciousReport(node, node.callee.name,
                              GetText(analysis.element, root), suggestion)>>
      ELSE <<Report(node, getMessageId(type, isLogical), "", suggestion,
                    <<suggestion>>,
                    <<Suggestion("Safe default: Use " \o suggestion
                                   \o " to check for items/properties",
                                 node, suggestion)>>
                    \o (IF type # "arraylike"
                        THEN <<Suggestion("Explicit coercion: Use Boolean("
                                            \o text
                                            \o ") if you really want a boolean",
                                          node, "Boolean(" \o text \o ")")>>
                        ELSE <<>>))>>

(***************************************************************************)
(* The TypeScript type checker as the type-aware rule sees it.  A query    *)
(* for a node ends in one of: no type information at all (hasTypeInfo      *)
(* false), no TypeScript node for the node, an exception, or a type.  A    *)
(* type is described by what the rule reads of it.                         *)
(***************************************************************************)
TsType(name, isArrayType, hasLength, hasNumberIndex, objectFlag, stringLike, callable, requireOk) ==
  [name |-> name, isArrayType |-> isArrayType, hasLength |-> hasLength,
   hasNumberIndex |-> hasNumberIndex, objectFlag |-> objectFlag,
   stringLike |-> stringLike, callable |-> callable, requireOk |-> requireOk]

NoType == TsType("<none>", FALSE, FALSE, FALSE, FALSE, FALSE, FALSE, FALSE)
ArrayT == TsType("string[]", TRUE, TRUE, TRUE, TRUE, FALSE, FALSE, TRUE)
SetT == TsType("Set<string>", FALSE, FALSE, FALSE, TRUE, FALSE, FALSE, TRUE)
RecordT == TsType("{ a: string }", FALSE, FALSE, FALSE, TRUE, FALSE, FALSE, TRUE)
\* the same types where the require('typescript') of isObjectType fails: the
\* package is an ES module, and `require` exists only where the host gives one
SetNoRequireT == TsType("Set<string>", FALSE, FALSE, FALSE, TRUE, FALSE, FALSE, FALSE)
RecordNoRequireT ==
  TsType("{ a: string }", FALSE, FALSE, FALSE, TRUE, FALSE, FALSE, FALSE)
NodeListT == TsType("NodeList", FALSE, TRUE, TRUE, TRUE, FALSE, FALSE, TRUE)
StringT == TsType("string", FALSE, TRUE, TRUE, FALSE, TRUE, FALSE, TRUE)
NumberT == TsType("number", FALSE, FALSE, FALSE, FALSE, FALSE, FALSE, TRUE)
FunctionT == TsType("() => void", FALSE, TRUE, FALSE, TRUE, FALSE, TRUE, TRUE)

TsTypes ==
  {ArrayT, SetT, SetNoRequireT, RecordT, RecordNoRequireT, NodeListT, StringT,
   NumberT, FunctionT}

Oracle(kind, ty) == [kind |-> kind, ty |-> ty]
\* the enhanced rule asks no type checker
NoOracle == Oracle("none", NoType)
Unavailable == Oracle("unavailable", NoType)
NoTsNode == Oracle("no-ts-node", NoType)
Throws == Oracle("throws", NoType)

\* one checkBooleanContext call: what it analysed and what it reported
Check(node, ctx, oracle, analysis, reports) ==
  [node |-> node, ctx |-> ctx, oracle |-> oracle,
   analysis |-> analysis, reports |-> reports]

checkBooleanContext(node, ctx, isLogical, cfg, root) ==
  IF node = NoNode THEN <<>>
  ELSE LET analysis == analyzeNode(node, ctx, cfg)
       IN  <<Check(node, ctx, NoOracle, analysis,
                   IF analysis # Null
                   THEN reportIssue(node, ctx, analysis, isLogical, cfg, root)
                   ELSE <<>>)>>

(***************************************************************************)
(* The type-aware rule: src/lib/rules/no-truthy-collections.js             *)
(***************************************************************************)
isArrayLikeType(ty) == ty.hasLength /\ ty.hasNumberIndex

isObjectType(ty) ==
  IF ~ty.requireOk THEN FALSE
  ELSE /\ ty.objectFlag
       /\ ~ty.isArrayType
       /\ ~ty.stringLike
       /\ ~ty.callable

\* getTypeInfo's result: {isArray, isArrayLike, isObject}, or null
\* `thrown`: the call ends with an exception instead
TypeInfo(known, isArray, isArrayLike, isObject) ==
  [known |-> known, isArray |-> isArray, isArrayLike |-> isArrayLike,
   isObject |-> isObject, thrown |-> FALSE]
NoTypeInfo == TypeInfo(FALSE, FALSE, FALSE, FALSE)
ThrownInfo == [NoTypeInfo EXCEPT !.thrown = TRUE]

\* getTypeInfo without its try/catch: an exception of the type checker
\* leaves the function
getTypeInfoNoCatch(oracle) ==
  IF oracle.kind = "throws" THEN ThrownInfo
  ELSE IF oracle.kind # "type" THEN NoTypeInfo
  ELSE TypeInfo(TRUE, oracle.ty.isArrayType, isArrayLikeType(oracle.ty),
                isObjectType(oracle.ty))

getTypeInfo(oracle) ==
  IF oracle.kind # "type" THEN NoTypeInfo
  ELSE TypeInfo(TRUE, oracle.ty.isArrayType, isArrayLikeType(oracle.ty),
                isObjectType(oracle.ty))

\* analyzeLiteral with the array branch testing `elements.length` as well:
\* the literal tier must not depend on the number of elements
analyzeLiteralNonEmpty(node) ==
  CASE node.type = "ArrayExpression" /\ Len(node.elements) > 0 ->
         Analysis("array", 100, "literal")
    [] node.type = "ObjectExpression" -> Analysis("object", 100, "literal")
    [] OTHER -> Unknown

analyzeLiteral(node) ==
  CASE node.type = "ArrayExpression" -> Analysis("array", 100, "literal")
    [] node.type = "ObjectExpression" -> Analysis("object", 100, "literal")
    [] OTHER -> Unknown

L_arrayMethods ==
  {"map", "filter", "slice", "concat", "splice", "reverse", "sort", "flat",
   "flatMap", "toSorted", "toReversed"}

isArrayConstructor(callee) ==
  IF callee.type = "Identifier" /\ callee.name = "Array" THEN TRUE
  ELSE IF /\ callee.type = "MemberExpression"
          /\ Fld(callee, "object").type = "Identifier"
          /\ NameOf(Fld(callee, "object")) = "Array"
  THEN NameOf(Fld(callee, "property")) \in {"from", "of"}
  ELSE IF /\ callee.type = "MemberExpression"
          /\ NameOf(Fld(callee, "property")) # NoName
  THEN NameOf(Fld(callee, "property")) \in L_arrayMethods
  ELSE FALSE

isObjectConstructor(callee) ==
  IF callee.type = "Identifier" /\ callee.name = "Object" THEN TRUE
  ELSE IF /\ callee.type = "MemberExpression"
          /\ Fld(callee, "object").type = "Identifier"
          /\ NameOf(Fld(callee, "object")) = "Object"
  THEN NameOf(Fld(callee, "property")) \in {"create", "assign", "fromEntries"}
  ELSE FALSE

arrayLikeTypes == {"Set", "Map", "WeakSet", "WeakMap", "NodeList", "HTMLCollection"}

isArrayLikeConstructor(callee) ==
  IF callee.type = "Identifier" THEN callee.name \in arrayLikeTypes ELSE FALSE

analyzeConstructor(node) ==
  IF node.type \notin {"CallExpression", "NewExpression"} THEN Unknown
  ELSE IF Fld(node, "callee") = NoNode THEN Unknown
  ELSE IF isArrayConstructor(node.callee)
  THEN Analysis("array", 95, "constructor")
  ELSE IF isObjectConstructor(node.callee)
  THEN Analysis("object", 95, "constructor")
  ELSE IF isArrayLikeConstructor(node.callee)
  THEN IF Len(node.arguments) = 0
       THEN Analysis("arraylike", 80, "constructor")
       ELSE IF Len(node.arguments) = 1 /\ node.arguments[1].type = "ArrayExpression"
       THEN Analysis("arraylike", 80, "constructor")
       ELSE Unknown
  ELSE Unknown

hasSuspiciousCollectionPattern(node) ==
  LET callee == Fld(node, "callee")
      no == [isSuspicious |-> FALSE, suggestion |-> NoName, element |-> NoNode]
  IN  IF node.type \notin {"NewExpression", "CallExpression"} THEN no
      ELSE IF callee = NoNode \/ callee.type # "Identifier" THEN no
      ELSE IF /\ callee.name \in {"Set", "Map"}
              /\ Len(node.arguments) = 1
              /\ node.arguments[1].type = "ArrayExpression"
              /\ Len(node.arguments[1].elements) = 1
      THEN [isSuspicious |-> TRUE, suggestion |-> callee.name,
            element |-> node.arguments[1].elements[1]]
      ELSE no

\* /[Xx]rest$/ patterns of analyzeNaming, then its /^(a|b|...)/i pattern
L_arraySuffixes ==
  {<<"A","r","r","a","y">>, <<"L","i","s","t">>, <<"I","t","e","m","s">>,
   <<"E","l","e","m","e","n","t","s">>,
   <<"C","o","l","l","e","c","t","i","o","n">>, <<"R","e","c","o","r","d","s">>}
L_arrayPrefixes ==
  {<<"i","t","e","m","s">>, <<"e","l","e","m","e","n","t","s">>,
   <<"l","i","s","t">>, <<"a","r","r","a","y">>,
   <<"c","o","l","l","e","c","t","i","o","n">>}
L_objectSuffixes ==
  {<<"O","b","j","e","c","t">>, <<"M","a","p">>, <<"C","o","n","f","i","g">>,
   <<"O","p","t","i","o","n","s">>, <<"S","e","t","t","i","n","g","s">>,
   <<"P","r","o","p","s">>, <<"A","t","t","r","i","b","u","t","e","s">>}
L_objectPrefixes ==
  {<<"c","o","n","f","i","g">>, <<"o","p","t","i","o","n","s">>,
   <<"s","e","t","t","i","n","g","s">>, <<"p","r","o","p","s">>,
   <<"a","t","t","r","s">>, <<"d","a","t","a">>}

analyzeNaming(node) ==
  IF node.type # "Identifier" THEN Unknown
  ELSE IF \/ \E w \in L_arraySuffixes : EndsWith(node.name, w)
          \/ \E w \in L_arrayPrefixes : StartsWithNoCase(node.name, w)
  THEN Analysis("array", 60, "naming")
  ELSE IF \/ \E w \in L_objectSuffixes : EndsWith(node.name, w)
          \/ \E w \in L_objectPrefixes : StartsWithNoCase(node.name, w)
  THEN Analysis("object", 60, "naming")
  ELSE Unknown

L_analyzeNode(node, cfg, oracle) ==
  LET typeInfo == getTypeInfo(oracle)
  IN  IF node = NoNode THEN Unknown
      ELSE IF typeInfo.thrown THEN Raised
      ELSE IF typeInfo.known /\ typeInfo.isArray
      THEN Analysis("array", 100, "typescript")
      ELSE IF typeInfo.known /\ typeInfo.isArrayLike
      THEN Analysis("arraylike", 90, "typescript")
      ELSE IF typeInfo.known /\ typeInfo.isObject
      THEN Analysis("object", 100, "typescript")
      ELSE IF analyzeLiteral(node).type # "unknown" THEN analyzeLiteral(node)
      ELSE IF analyzeConstructor(node).type # "unknown"
      THEN analyzeConstructor(node)
      ELSE IF /\ cfg.strictNaming
              /\ node.type = "Identifier"
              /\ analyzeNaming(node).type # "unknown"
      THEN analyzeNaming(node)
      ELSE Unknown

L_generateFix(node, collectionType, root) ==
  LET nodeText == GetText(node, root)
  IN  CASE collectionType = "array" -> nodeText \o ".length > 0"
        [] collectionType = "object" -> "Object.keys(" \o nodeText \o ").length > 0"
        [] collectionType = "arraylike" -> nodeText \o ".size > 0"
        [] OTHER -> nodeText \o ".length > 0"

L_getMessageId(collectionType, messageContext) ==
  IF messageContext = "logical"
  THEN CASE collectionType = "array" -> "arrayInLogical"
         [] collectionType = "object" -> "objectInLogical"
         [] collectionType = "arraylike" -> "arrayLikeTruthy"
         [] OTHER -> "arrayInLogical"
  ELSE CASE collectionType = "array" -> "arrayTruthy"
         [] collectionType = "object" -> "objectTruthy"
         [] collectionType = "arraylike" -> "arrayLikeTruthy"
         [] OTHER -> "arrayTruthy"

L_shouldCheck(collectionType, cfg) ==
  CASE collectionType = "array" -> cfg.checkArrays
    [] collectionType = "object" -> cfg.checkObjects
    [] collectionType = "arraylike" -> cfg.checkArrayLike
    [] OTHER -> FALSE

\* the sequence of context.report calls one reportIssue call makes
L_reportIssue(node, ctx, analysis, messageContext, cfg, root) ==
  LET collectionType == analysis.type
      method == analysis.method
      suspiciousPattern == hasSuspiciousCollectionPattern(node)
      suggestion == L_generateFix(node, collectionType, root)
      nodeText == GetText(node, root)
  IN  IF method = "naming" /\ analysis.confidence < 50 THEN <<>>
      ELSE IF cfg.allowExplicitBoolean /\ isInExplicitBooleanContext(ctx) THEN <<>>
      ELSE IF suspiciousPattern.isSuspicious
      THEN <<suspiciousReport(node, suspiciousPattern.suggestion,
                              GetText(suspiciousPattern.element, root),
                              suggestion)>>
      ELSE IF ~L_shouldCheck(collectionType, cfg) THEN <<>>
      ELSE IF \/ method \in {"literal", "constructor", "typescript"}
              \/ method = "naming" /\ analysis.confidence >= 50
      THEN <<Report(node, L_getMessageId(collectionType, messageContext), "",
                    suggestion, <<suggestion>>,
                    IF collectionType = "arraylike"
                    THEN <<Suggestion("Use " \o suggestion \o " to check for items",
                                      node, suggestion)>>
                    ELSE <<Suggestion("Use " \o suggestion
                                        \o " to check for items/properties",
                                      node, suggestion),
                           Suggestion("Use Boolean(" \o nodeText
                                        \o ") if explicit coercion is needed",
                                      node, "Boolean(" \o nodeText \o ")")>>)>>
      ELSE <<>>

L_checkBooleanContext(node, ctx, messageContext, cfg, root, oracle) ==
  IF node = NoNode THEN <<>>
  ELSE LET analysis == L_analyzeNode(node, cfg, oracle)
       IN  <<Check(node, ctx, oracle, analysis,
                   IF analysis = Raised THEN <<>>
                   ELSE IF analysis.type # "unknown"
                   THEN L_reportIssue(node, ctx, analysis, messageContext, cfg, root)
                   ELSE <<>>)>>

\* the CallExpression handler: `Boolean(arg)` with exactly one argument
L_checkBooleanCall(node, above, cfg, root, oracle) ==
  LET arg == node.arguments[1]
      analysis == L_analyzeNode(arg, cfg, oracle)
      suggestion == L_generateFix(arg, analysis.type, root)
  IN  <<Check(arg, Ctx(node, "argument", above), oracle, analysis,
              IF /\ analysis # Raised
                 /\ analysis.type # "unknown"
                 /\ analysis.confidence > 50
                 /\ L_shouldCheck(analysis.type, cfg)
              THEN <<Report(arg, "",
                            "Boolean(" \o GetText(arg, root) \o ") works but "
                              \o suggestion \o " is clearer.",
                            "", <<>>,
                            <<Suggestion("Use " \o suggestion
                                           \o " for explicit intent",
                                         node, suggestion)>>)>>
              ELSE <<>>)>>

(***************************************************************************)
(* The visitor handlers.  Each gives the checkBooleanContext calls the     *)
(* handler makes on node S (whose ancestors are `above`), in order.  `os`  *)
(* holds the type checker's answers to the handler's queries, in order.    *)
(***************************************************************************)

\* a test handler that passes the test to checkBooleanContext twice
TestHandlerTwice(im, cfg, S, above, os) ==
  IF im = "enhanced"
  THEN checkBooleanContext(S.test, Ctx(S, "test", above), FALSE, cfg, S)
       \o checkBooleanContext(S.test, Ctx(S, "test", above), FALSE, cfg, S)
  ELSE L_checkBooleanContext(S.test, Ctx(S, "test", above), "boolean", cfg, S, os[1])
       \o L_checkBooleanContext(S.test, Ctx(S, "test", above), "boolean", cfg, S,
                                os[1])

\* IfStatement, WhileStatement, DoWhileStatement, ForStatement,
\* ConditionalExpression: checkBooleanContext(node.test)
TestHandler(im, cfg, S, above, os) ==
  IF im = "enhanced"
  THEN checkBooleanContext(S.test, Ctx(S, "test", above), FALSE, cfg, S)
  ELSE L_checkBooleanContext(S.test, Ctx(S, "test", above), "boolean", cfg, S, os[1])

LogicalHandler(im, cfg, S, above, os) ==
  IF im = "enhanced"
  THEN checkBooleanContext(S.left, Ctx(S, "left", above), TRUE, cfg, S)
       \o checkBooleanContext(S.right, Ctx(S, "right", above), TRUE, cfg, S)
  ELSE IF S.operator \in {"&&", "||"}
  THEN L_checkBooleanContext(S.left, Ctx(S, "left", above), "logical", cfg, S, os[1])
       \o L_checkBooleanContext(S.right, Ctx(S, "right", above), "logical", cfg, S,
                                os[2])
  ELSE <<>>

\* only the enhanced rule has a UnaryExpression handler
UnaryHandler(im, cfg, S, above, os) ==
  IF im = "enhanced" /\ S.operator = "!"
  THEN checkBooleanContext(S.argument, Ctx(S, "argument", above), FALSE, cfg, S)
  ELSE <<>>

\* only the type-aware rule has a CallExpression handler
CallHandler(im, cfg, S, above, os) ==
  IF /\ im = "typeaware"
     /\ Fld(S, "callee").type = "Identifier"
     /\ NameOf(Fld(S, "callee")) = "Boolean"
     /\ Len(S.arguments) = 1
  THEN L_checkBooleanCall(S, above, cfg, S, os[1])
  ELSE <<>>

(***************************************************************************)
(* The programs the rule is run on: the expressions that can sit in a      *)
(* boolean position, and the syntax around them.                           *)
(***************************************************************************)
ElemNames == <<"x", "y", "z", "w">>
PropNames == <<"key", "b", "c">>

\* [], [x], [x, y], ...
ArrayLiterals ==
  {Arr([i \in 1..k |-> Ident(ElemNames[i])]) : k \in 0..MaxElems}
\* {}, { key: 1 }, ...
ObjectLiterals ==
  {Obj([i \in 1..k |-> Prop(PropNames[i], Lit("1"))]) : k \in 0..MaxProps}
\* one-element array literals whose element is a hole, a spread, a member chain
OddSingletons ==
  {Arr(<<NoNode>>), Arr(<<Spread(Ident("xs"))>>),
   Arr(<<OptMember(Member(Ident("obj"), Ident("prop")), Ident("items"))>>)}

CtorNames ==
  {"Array", "Object", "Set", "Map", "WeakSet", "WeakMap", "NodeList", "Foo"}
ArgLists ==
  {<<>>, <<Ident("items")>>, <<Arr(<<Ident("x")>>), Ident("y")>>}
    \cup {<<a>> : a \in ArrayLiterals}

NewTargets ==
  {New(Ident(c), as) : c \in CtorNames, as \in ArgLists}
    \cup {New(Ident(c), <<a>>) : c \in {"Set", "Map", "WeakSet"}, a \in OddSingletons}
CallTargets ==
  {Call(Ident(c), as) : c \in {"Set", "Array", "Object", "f"},
                        as \in {<<>>, <<Arr(<<Ident("x")>>)>>}}
MethodTargets ==
  {Call(Member(Ident("arr"), Ident(m)), <<Arrow>>) :
     m \in arrayMethods \cup L_arrayMethods \cup {"find"}}
    \cup {Call(Member(Ident("Array"), Ident(m)), <<Ident("x")>>) :
            m \in ArrayStatics \cup {"isArray", "map"}}
    \cup {Call(Member(Ident("Object"), Ident(m)), <<Ident("x")>>) :
            m \in ObjectStatics \cup {"freeze"}}
    \cup {Call(Index(Ident("arr"), Lit("'map'")), <<Arrow>>)}
MemberTargets ==
  {Member(Ident("user"), Ident("items")), Member(Ident("user"), Ident("config")),
   Member(Ident("user"), Ident("name")), Member(Ident("items"), Ident("length")),
   Member(Member(Ident("obj"), Ident("prop")), Ident("items")),
   Member(Call(Ident("f"), <<>>), Ident("items")),
   OptMember(Ident("user"), Ident("items")),
   Index(Ident("user"), Ident("items")), Index(Ident("user"), Lit("'items'"))}
IdentTargets == {Ident(n) : n \in IdentNames}
OtherTargets ==
  {Lit("0"), Binary(Member(Ident("x"), Ident("length")), ">", Lit("0")),
   Unary("!", Ident("items")), Logical(Ident("x"), "||", Ident("rest"))}

\* every expression the model puts in a boolean position
Targets ==
  ArrayLiterals \cup ObjectLiterals \cup NewTargets \cup CallTargets
    \cup MethodTargets \cup MemberTargets \cup IdentTargets \cup OtherTargets

\* one expression for each way of being (or not being) classified
CoreTargets ==
  {Arr(<<>>), Obj(<<>>), New(Ident("Array"), <<>>), New(Ident("Set"), <<>>),
   New(Ident("Set"), <<Arr(<<Ident("x")>>)>>),
   New(Ident("Map"), <<Arr(<<Ident("x")>>)>>),
   New(Ident("Set"), <<Ident("items")>>),
   Call(Member(Ident("arr"), Ident("map")), <<Arrow>>),
   Call(Member(Ident("Object"), Ident("keys")), <<Ident("x")>>),
   Member(Ident("user"), Ident("items")), Member(Ident("user"), Ident("config")),
   Ident("items"), Ident("config"), Ident("userList"), Ident("settingsMap"),
   Ident("x"), Call(Ident("f"), <<>>)}
    \cup {New(Ident("Set"), <<a>>) : a \in ArrayLiterals}

\* the other operand of `E && ...`: the checks on E that make it safe, and others
Guards(E) ==
  {Call(Ident("g"), <<>>),
   Binary(Member(E, Ident("length")), ">", Lit("0")),
   Binary(Member(E, Ident("size")), ">=", Lit("1")),
   Binary(Member(E, Ident("length")), "===", Lit("0")),
   Binary(Index(E, Lit("'length'")), ">", Lit("0")),
   Binary(Member(Call(Member(Ident("Object"), Ident("keys")), <<E>>),
                 Ident("length")), ">", Lit("0")),
   Member(E, Ident("length")),
   Member(Call(Member(Ident("Object"), Ident("keys")), <<E>>), Ident("length")),
   Member(Ident("other"), Ident("size"))}

\* ancestors above the visited node: plain code, or a default value inside a
\* destructuring pattern (`const [a = E ? 1 : 2] = v`, `({ a = E ? 1 : 2 }) => 0`)
Program == [type |-> "Program"]
PlainAbove == <<Program>>
PatternAboves ==
  {<<[type |-> "AssignmentPattern"], [type |-> "ArrayPattern"],
     [type |-> "VariableDeclarator"], Program>>,
   <<[type |-> "AssignmentPattern"], [type |-> "Property"],
     [type |-> "ObjectPattern"], [type |-> "ArrowFunctionExpression"], Program>>,
   <<[type |-> "AssignmentPattern"], [type |-> "ArrayPattern"],
     [type |-> "RestElement"], [type |-> "ArrowFunctionExpression"], Program>>}

\* how the program declares the identifier a test consists of:
\* `const v = f()`, `const { v } = o`, `const [v] = a`, `const [a, ...v] = b`
Bindings == {"VariableDeclarator", "ObjectPattern", "ArrayPattern", "RestElement"}

\* a visited node with its ancestors; `binding` is the kind of the node
\* that declares the tested identifier ("none" when the test is no identifier)
BoundSite(S, above, binding) == [S |-> S, above |-> above, binding |-> binding]
Site(S, above) == BoundSite(S, above, "none")

TestSites(type) ==
  {Site(Stmt(type, e), PlainAbove) :
     e \in IF type = "IfStatement" THEN Targets ELSE CoreTargets}
    \cup (IF type = "IfStatement"
          THEN {BoundSite(Stmt(type, e), PlainAbove, b) :
                  e \in IdentTargets, b \in Bindings}
          ELSE {})
    \cup (IF type = "ForStatement"
          THEN {Site(Stmt(type, NoNode), PlainAbove)} ELSE {})
    \cup (IF type = "ConditionalExpression"
          THEN {Site(Stmt(type, e), a) : e \in IdentTargets, a \in PatternAboves}
          ELSE {})

LogicalSites ==
  UNION {{Site(Logical(e, "&&", g), PlainAbove) : g \in Guards(e)} :
           e \in CoreTargets}
    \cup {Site(Logical(e, op, Call(Ident("g"), <<>>)), PlainAbove) :
            e \in CoreTargets, op \in {"||", "??"}}
    \cup {Site(Logical(Call(Ident("g"), <<>>), op, e), PlainAbove) :
            e \in CoreTargets, op \in {"&&", "||", "??"}}
    \cup {Site(Logical(Binary(Member(e, Ident("length")), ">", Lit("0")), "&&", e),
               PlainAbove) : e \in CoreTargets}

UnarySites ==
  {Site(Unary("!", e), PlainAbove) : e \in CoreTargets}
    \cup {Site(Unary("!", e), <<Unary("!", NoNode), Program>>) : e \in CoreTargets}
    \cup {Site(Unary("!", e), <<Unary("-", NoNode), Program>>) : e \in CoreTargets}
    \cup {Site(Unary(op, e), PlainAbove) : e \in CoreTargets, op \in {"-", "typeof "}}

CallSites ==
  {Site(Call(Ident("Boolean"), <<e>>), PlainAbove) : e \in Targets}
    \cup {Site(Call(Ident(c), as), PlainAbove) :
            c \in {"Boolean", "Number"},
            as \in {<<>>, <<Arr(<<>>)>>, <<Arr(<<>>), Ident("y")>>}}
    \cup {Site(Call(Member(Ident("util"), Ident("Boolean")), <<Arr(<<>>)>>),
               PlainAbove)}

(***************************************************************************)
(* The answers the type checker can give for a node.  Without type         *)
(* information (hasTypeInfo false) getTypeInfo returns before any query.   *)
(* Literals and the built-in constructors have the type TypeScript gives   *)
(* them; an identifier can have any type, another expression an array, an *)
(* object or a primitive type.                                             *)
(***************************************************************************)
TypesOf(n) ==
  CASE n.type = "ArrayExpression" -> {ArrayT}
    [] n.type = "ObjectExpression" -> {RecordT, RecordNoRequireT}
    [] n.type \in {"NewExpression", "CallExpression"}
         /\ Fld(n, "callee").type = "Identifier"
         /\ NameOf(Fld(n, "callee")) \in {"Set", "Map", "WeakSet", "WeakMap"} ->
           {SetT, SetNoRequireT}
    [] n.type = "NewExpression"
         /\ Fld(n, "callee").type = "Identifier"
         /\ NameOf(Fld(n, "callee")) = "Array" -> {ArrayT}
    [] n.type \in {"BinaryExpression", "Literal", "UnaryExpression"} -> {NumberT}
    [] n.type = "MemberExpression"
         /\ NameOf(Fld(n, "property")) \in {"length", "size"} -> {NumberT}
    [] n.type = "CallExpression"
         /\ NameOf(Fld(n, "callee")) = "g" -> {NumberT}
    [] n.type = "Identifier" -> TsTypes
    [] OTHER -> {ArrayT, RecordT, NumberT}

Answers(n, typed) ==
  IF ~typed \/ n = NoNode THEN {Unavailable}
  ELSE {NoTsNode, Throws} \cup {Oracle("type", t) : t \in TypesOf(n)}

Configs ==
  [checkArrays : BOOLEAN, checkObjects : BOOLEAN, checkArrayLike : BOOLEAN,
   allowExplicitBoolean : BOOLEAN, strictNaming : BOOLEAN]

\* create(context) with no options
DefaultConfig ==
  [checkArrays |-> TRUE, checkObjects |-> TRUE, checkArrayLike |-> TRUE,
   allowExplicitBoolean |-> TRUE, strictNaming |-> FALSE]

(***************************************************************************)
(* create(context): the rule is instantiated with a configuration; only    *)
(* the type-aware rule looks for parser services.  The file is one that is *)
(* linted: for a path on its skip list the type-aware rule returns an      *)
(* empty visitor.                                                          *)
(***************************************************************************)
Init ==
  /\ impl \in {"enhanced", "typeaware"}
  /\ config \in Configs
  /\ hasTypeInfo \in (IF impl = "typeaware" THEN BOOLEAN ELSE {FALSE})
  /\ handler = "idle"
  /\ site = Site(Program, <<>>)
  /\ checks = <<>>
  /\ visited = FALSE
  /\ fixed = <<>>

\* a visitor that reports a node only in the first handler call of a run
VisitOnce(type, st, result) ==
  /\ handler' = type
  /\ site' = st
  /\ checks' = IF visited
                THEN [i \in DOMAIN result |-> [result[i] EXCEPT !.reports = <<>>]]
                ELSE result
  /\ UNCHANGED <<impl, config, hasTypeInfo, visited, fixed>>

\* ESLint visits node st.S: the rule's handler for its type, if any, runs.
\* The handlers read the node, the options and the type checker and write
\* nothing that outlives the call; `visited` records that a handler ran
\* earlier in this run of the rule.
Visit(type, st, result) ==
  /\ handler' = type
  /\ site' = st
  /\ checks' = result
  /\ UNCHANGED <<impl, config, hasTypeInfo, visited, fixed>>

\* between two nodes: no handler is running
Idle == handler = "idle"

\* the handler of rule `im` for a node of the given type
RunHandler(im, cfg, type, st, os) ==
  CASE type = "LogicalExpression" -> LogicalHandler(im, cfg, st.S, st.above, os)
    [] type = "UnaryExpression" -> UnaryHandler(im, cfg, st.S, st.above, os)
    [] type = "CallExpression" -> CallHandler(im, cfg, st.S, st.above, os)
    [] OTHER -> TestHandler(im, cfg, st.S, st.above, os)

VisitTest(type) ==
  /\ Idle
  /\ \E st \in TestSites(type) :
       \E o \in Answers(st.S.test, hasTypeInfo) :
         Visit(type, st, RunHandler(impl, config, type, st, <<o>>))

IfStatement == VisitTest("IfStatement")
WhileStatement == VisitTest("WhileStatement")
DoWhileStatement == VisitTest("DoWhileStatement")
ForStatement == VisitTest("ForStatement")
ConditionalExpression == VisitTest("ConditionalExpression")

LogicalExpression ==
  /\ Idle
  /\ \E st \in LogicalSites :
       \E oL \in Answers(st.S.left, hasTypeInfo),
          oR \in Answers(st.S.right, hasTypeInfo) :
         Visit("LogicalExpression", st,
               RunHandler(impl, config, "LogicalExpression", st, <<oL, oR>>))

UnaryExpression ==
  /\ Idle
  /\ \E st \in UnarySites :
       Visit("UnaryExpression", st,
             RunHandler(impl, config, "UnaryExpression", st, <<>>))

CallExpression ==
  /\ Idle
  /\ \E st \in CallSites :
       \E o \in (IF st.S.arguments = <<>> THEN {Unavailable}
                 ELSE Answers(st.S.arguments[1], hasTypeInfo)) :
         Visit("CallExpression", st,
               RunHandler(impl, config, "CallExpression", st, <<o>>))

\* the traversal leaves the node; the reports went to the linter
Leave ==
  /\ ~Idle
  /\ handler' = "idle"
  /\ site' = Site(Program, <<>>)
  /\ checks' = <<>>
  /\ visited' = TRUE
  /\ UNCHANGED <<impl, config, hasTypeInfo, fixed>>

Next ==
  \/ Leave
  \/ IfStatement
  \/ WhileStatement
  \/ DoWhileStatement
  \/ ForStatement
  \/ ConditionalExpression
  \/ LogicalExpression
  \/ UnaryExpression
  \/ CallExpression

Spec == Init /\ [][Next]_vars

(***************************************************************************)
(* generateFix on its own: the function is applied to a node and a kind,   *)
(* whatever the analysis would have said of the node.  Besides the         *)
(* expressions of the visits, the nodes include ones whose range spans no  *)
(* text or only white space.  `fixed` holds the call and its result.       *)
(***************************************************************************)
FixNodes == CoreTargets \cup {Spanning(t) : t \in BlankTexts}
FixKinds == {"array", "object", "arraylike", "unknown"}

FixCall(node, type, text) == [node |-> node, type |-> type, text |-> text]

\* the generateFix of rule `im`
RunGenerateFix(im, node, type, root) ==
  IF im = "enhanced" THEN generateFix(node, type, root)
  ELSE L_generateFix(node, type, root)

GenerateFix ==
  /\ \E node \in FixNodes, type \in FixKinds :
       fixed' = <<FixCall(node, type, RunGenerateFix(impl, node, type, Program))>>
  /\ UNCHANGED <<impl, config, hasTypeInfo, handler, site, checks, visited>>

SpecFix == Init /\ [][GenerateFix]_vars

(***************************************************************************)
(* Properties of the rule.  A state after a visit holds in `checks` every  *)
(* checkBooleanContext call the handler made; each property speaks of      *)
(* those calls and of the diagnoses they reported.                         *)
(***************************************************************************)
\* the type checker's answers to the queries of the last visit, in order
OsOf == [i \in DOMAIN checks |-> checks[i].oracle]

\* the calls of the last visit, and the diagnoses of one of them
Calls == {checks[i] : i \in DOMAIN checks}
Diagnoses(c) == {c.reports[j] : j \in DOMAIN c.reports}

\* no type checker: the enhanced rule has none, the type-aware rule finds no
\* parser services
NoTypeOracle(c) == c.oracle.kind \in {"none", "unavailable"}

Classified(c) == c.analysis.type \in {"array", "object", "arraylike"}

\* a generic diagnosis carries one of the rule's message ids and a primary fix
IsGeneric(r) == r.messageId # ""
\* the specialized diagnosis of `new Set([x])`: an inline message, no primary fix
IsSpecialized(r) ==
  /\ r.messageId = ""
  /\ r.fix = <<>>
  /\ Len(r.suggest) = 3

\* the rewrite of source text E for a kind
RewriteOf(kind, E) ==
  CASE kind = "array" -> E \o ".length > 0"
    [] kind = "object" -> "Object.keys(" \o E \o ").length > 0"
    [] kind = "arraylike" -> E \o ".size > 0"

\* C1: with no type oracle available, every array literal in a boolean
\* position is classified array with confidence 100, and every object
\* literal object with confidence 100, whatever its number of elements or
\* properties.
C1_LiteralsClassified ==
  \A c \in Calls :
    NoTypeOracle(c) =>
      /\ c.node.type = "ArrayExpression" =>
            c.analysis.type = "array" /\ c.analysis.confidence = 100
      /\ c.node.type = "ObjectExpression" =>
            c.analysis.type = "object" /\ c.analysis.confidence = 100

\* an array literal of MaxElems elements was analysed by the type-aware rule
\* without type information
C1_Witness ==
  \E c \in Calls :
    /\ impl = "typeaware"
    /\ NoTypeOracle(c)
    /\ c.node.type = "ArrayExpression"
    /\ Len(c.node.elements) = MaxElems
    /\ c.analysis.type = "array"

\* C2: the primary rewrite of every generic diagnosis on a node of source
\* text E is `E.length > 0` for kind array, `Object.keys(E).length > 0` for
\* kind object and `E.size > 0` for kind arraylike, E verbatim.
C2_GenericRewrite ==
  \A c \in Calls : \A r \in Diagnoses(c) :
    IsGeneric(r) =>
      /\ Classified(c)
      /\ r.fix = <<RewriteOf(c.analysis.type, Render(r.node))>>

\* `if (new Set()) {}` got the generic diagnosis with rewrite `new Set().size > 0`
C2_Witness ==
  \E c \in Calls : \E r \in Diagnoses(c) :
    /\ IsGeneric(r)
    /\ c.analysis.type = "arraylike"
    /\ r.node = New(Ident("Set"), <<>>)
    /\ r.fix = <<"new Set().size > 0">>

\* a call or `new` of bare Set, Map, WeakSet or WeakMap with no argument
ZeroArgCollection(n) ==
  /\ n.type \in {"NewExpression", "CallExpression"}
  /\ Fld(n, "callee").type = "Identifier"
  /\ NameOf(Fld(n, "callee")) \in {"Set", "Map", "WeakSet", "WeakMap"}
  /\ n.arguments = <<>>

\* arraylike with confidence 80; every generic diagnosis rewrites to
\* `<sourceText>.size > 0`, and a test position with checkArrayLike on gets one
ArrayLike80(c) ==
  /\ c.analysis.type = "arraylike"
  /\ c.analysis.confidence = 80
  /\ \A r \in Diagnoses(c) :
       IsGeneric(r) => r.fix = <<Render(c.node) \o ".size > 0">>
  /\ c.ctx.role = "test" /\ config.checkArrayLike =>
       \E r \in Diagnoses(c) : IsGeneric(r)

BooleanPosition(ctx) ==
  \/ /\ ctx.role = "test"
     /\ ctx.parent.type \in {"IfStatement", "WhileStatement", "DoWhileStatement",
                              "ForStatement", "ConditionalExpression"}
  \/ ctx.parent.type = "LogicalExpression" /\ OpOf(ctx.parent) \in {"&&", "||"}
  \/ ctx.parent.type = "UnaryExpression" /\ OpOf(ctx.parent) = "!"

\* the node is the operand of `!!` or the argument of `Boolean(...)`
ExplicitCoercion(ctx) ==
  \/ /\ ctx.parent.type = "UnaryExpression" /\ OpOf(ctx.parent) = "!"
     /\ GrandParent(ctx).type = "UnaryExpression" /\ OpOf(GrandParent(ctx)) = "!"
  \/ /\ ctx.parent.type = "CallExpression"
     /\ ctx.parent.callee = Ident("Boolean")

\* a `.length` or `.size` access
SizeAccess(n) ==
  n.type = "MemberExpression" /\ NameOf(Fld(n, "property")) \in {"length", "size"}

\* the node is the left operand of an `&&` whose right operand reads a
\* `.length`/`.size` or compares one with `>` or `>=`
SizeGuarded(ctx) ==
  /\ ctx.parent.type = "LogicalExpression"
  /\ OpOf(ctx.parent) = "&&"
  /\ ctx.role = "left"
  /\ \/ SizeAccess(ctx.parent.right)
     \/ /\ ctx.parent.right.type = "BinaryExpression"
        /\ OpOf(ctx.parent.right) \in {">", ">="}
        /\ SizeAccess(ctx.parent.right.left)

\* `new Set([x])` or `new Map([x])`: one argument, an array literal with one
\* element x
SingletonCollection(n) ==
  /\ n.type = "NewExpression"
  /\ Fld(n, "callee").type = "Identifier"
  /\ NameOf(Fld(n, "callee")) \in {"Set", "Map"}
  /\ Len(n.arguments) = 1
  /\ n.arguments[1].type = "ArrayExpression"
  /\ Len(n.arguments[1].elements) = 1
  /\ n.arguments[1].elements[1] # NoNode

\* the one diagnosis on the node is the specialized one, and its alternatives
\* replace the node by x, `new <Ctor>(x).size > 0`, `new <Ctor>([x]).size > 0`
SpecializedFires(c) ==
  LET ctor == c.node.callee.name
      x == Render(c.node.arguments[1].elements[1])
  IN  /\ Len(c.reports) = 1
      /\ IsSpecialized(c.reports[1])
      /\ c.reports[1].node = c.node
      /\ [j \in 1..3 |-> c.reports[1].suggest[j].text]
           = <<x, "new " \o ctor \o "(" \o x \o ").size > 0",
               "new " \o ctor \o "([" \o x \o "]).size > 0">>
      /\ \A j \in 1..3 : c.reports[1].suggest[j].target = c.node

CollectionCall(n) ==
  /\ n.type \in {"NewExpression", "CallExpression"}
  /\ Fld(n, "callee").type = "Identifier"
  /\ NameOf(Fld(n, "callee")) \in {"Set", "Map", "WeakSet", "WeakMap"}

\* its one argument is no literal (`new Set(items)`), or is an array literal
\* of two or more elements (`new Set([x, y])`)
PopulatedCollection(n) ==
  /\ CollectionCall(n)
  /\ Len(n.arguments) = 1
  /\ \/ n.arguments[1].type \notin {"ArrayExpression", "ObjectExpression", "Literal"}
     \/ /\ n.arguments[1].type = "ArrayExpression"
        /\ Len(n.arguments[1].elements) >= 2

ValidationIdiom(E, ctx) ==
  /\ ctx.parent.type = "LogicalExpression"
  /\ OpOf(ctx.parent) = "&&"
  /\ ctx.role = "left"
  /\ ctx.parent.right \in
       {Binary(Member(E, Ident("length")), ">", Lit("0")),
        Binary(Member(Call(Member(Ident("Object"), Ident("keys")), <<E>>),
                      Ident("length")), ">", Lit("0"))}

C7_ExplicitCoercionAllowed ==
  \A c \in Calls :
    config.allowExplicitBoolean /\ ExplicitCoercion(c.ctx) =>
      /\ c.reports = <<>>
      /\ \A d \in Calls : \A r \in Diagnoses(d) : r.node # c.node

\* `Boolean([])` under the default configuration, no type information: the
\* type-aware rule's CallExpression handler reported on `[]`
C7_Witness ==
  \E c \in Calls :
    /\ impl = "typeaware"
    /\ config = DefaultConfig
    /\ ~hasTypeInfo
    /\ site.S = Call(Ident("Boolean"), <<Arr(<<>>)>>)
    /\ c.node = Arr(<<>>)
    /\ Len(c.reports) = 1
    /\ c.reports[1].message = "Boolean([]) works but [].length > 0 is clearer."

\* the option that switches a kind on or off
KindOption(kind) ==
  CASE kind = "array" -> "checkArrays"
    [] kind = "object" -> "checkObjects"
    [] kind = "arraylike" -> "checkArrayLike"

\* the last visit, run again under another configuration with the same
\* answers of the type checker
Rerun(cfg) == RunHandler(impl, cfg, handler, site, OsOf)

\* C8: setting checkArrays (checkObjects, checkArrayLike) to false suppresses
\* every diagnosis, generic or specialized, for nodes classified array
\* (object, arraylike), for every evidence tier, and leaves the diagnoses
\* for the other two kinds exactly as they are with the option on.
C8_KindGating ==
  /\ \A c \in Calls :
       Classified(c) /\ ~config[KindOption(c.analysis.type)] => c.reports = <<>>
  /\ ~Idle =>
       \A kind \in {"array", "object", "arraylike"} :
         LET on == Rerun([config EXCEPT ![KindOption(kind)] = TRUE])
             off == Rerun([config EXCEPT ![KindOption(kind)] = FALSE])
         IN  /\ Len(on) = Len(off)
             /\ \A i \in DOMAIN on :
                  on[i].analysis.type # kind => off[i] = on[i]

\* `if (new Set([x])) {}` with checkArrayLike off, no type information: the
\* type-aware rule classified it arraylike and reported the specialized
\* diagnosis
C8_Witness ==
  \E c \in Calls :
    /\ impl = "typeaware"
    /\ ~hasTypeInfo
    /\ ~config.checkArrayLike
    /\ handler = "IfStatement"
    /\ c.node = New(Ident("Set"), <<Arr(<<Ident("x")>>)>>)
    /\ c.analysis.type = "arraylike"
    /\ Len(c.reports) = 1
    /\ IsSpecialized(c.reports[1])

\* evidence from the suffix/prefix pattern of a name (tier 7b)
PatternEvidence(a) == a.method \in {"variable-pattern", "naming"}

\* the identifier sits in plain code and was declared by a plain declaration
PlainIdentifier(c) ==
  /\ c.node.type = "Identifier"
  /\ c.ctx.above = PlainAbove
  /\ site.binding \in {"none", "VariableDeclarator"}

C10_DestructuredExcluded ==
  \A c \in Calls :
    /\ impl = "enhanced"
    /\ c.node.type = "Identifier"
    /\ site.binding \in {"ObjectPattern", "ArrayPattern", "RestElement"}
    => /\ c.analysis.method \notin {"variable-name", "variable-pattern"}
       /\ c.reports = <<>>

\* `const { items } = props; if (items) {}` under the default
\* configuration: classified array/85 by its name and reported
C10_Witness ==
  \E c \in Calls :
    /\ impl = "enhanced"
    /\ config = DefaultConfig
    /\ site.binding = "ObjectPattern"
    /\ c.node = Ident("items")
    /\ c.analysis.method = "variable-name"
    /\ c.analysis.confidence = 85
    /\ \E r \in Diagnoses(c) : r.messageId = "arrayTruthy"

\* what the type checker says of a resolved type: an array, an array-like
\* (length and number index), an object that is no array, string or function
OracleKind(ty) ==
  IF ty.isArrayType THEN "array"
  ELSE IF ty.hasLength /\ ty.hasNumberIndex THEN "arraylike"
  ELSE IF ty.objectFlag /\ ~ty.stringLike /\ ~ty.callable THEN "object"
  ELSE "none"

\* C11: when the type oracle is available and resolves the node to an array,
\* array-like or object type, the classifier returns that kind with
\* confidence 100 and consults no syntactic tier, whatever the node's shape.
C11_OracleFirst ==
  \A c \in Calls :
    c.oracle.kind = "type" /\ OracleKind(c.oracle.ty) # "none" =>
      /\ c.analysis.type = OracleKind(c.oracle.ty)
      /\ c.analysis.confidence = 100
      /\ c.analysis.method = "typescript"

\* `if (x) {}` where x has the type { a: string } and the host gives the ES
\* module no `require`: isObjectType answers false and x is not classified
C11_Witness ==
  \E c \in Calls :
    /\ impl = "typeaware"
    /\ handler = "IfStatement"
    /\ c.node = Ident("x")
    /\ c.oracle = Oracle("type", RecordNoRequireT)
    /\ c.analysis = Unknown
    /\ c.reports = <<>>

\* the type checker is not there, has no node for the queried node, or throws
OracleFails(c) == c.oracle.kind \in {"unavailable", "no-ts-node", "throws"}

\* C12: if the type-oracle query throws or is unavailable for a node, no
\* exception reaches the caller and the node's classification is exactly
\* the one the syntactic tiers give without an oracle.
C12_OracleFailureDegrades ==
  \A c \in Calls :
    impl = "typeaware" /\ OracleFails(c) =>
      /\ c.analysis # Raised
      /\ c.analysis = L_analyzeNode(c.node, config, NoOracle)
      /\ c.analysis.method # "typescript"

\* `if (new Set()) {}` where the type checker throws: arraylike/80 by the
\* constructor tier
C12_Witness ==
  \E c \in Calls :
    /\ impl = "typeaware"
    /\ c.oracle = Throws
    /\ c.node = New(Ident("Set"), <<>>)
    /\ c.analysis = Analysis("arraylike", 80, "constructor")

LogicalOperand(ctx) ==
  ctx.parent.type = "LogicalExpression" /\ OpOf(ctx.parent) \in {"&&", "||"}

\* C14: the message of a generic diagnosis is chosen by position and kind:
\* an array or object operand of `&&` or `||` gets arrayInLogical or
\* objectInLogical, an array or object node in any other boolean position
\* gets arrayTruthy or objectTruthy, and an arraylike node gets
\* arrayLikeTruthy in every position.
C14_MessageByPositionAndKind ==
  \A c \in Calls :
    \A r \in Diagnoses(c) :
      IsGeneric(r) =>
        /\ c.analysis.type = "arraylike" => r.messageId = "arrayLikeTruthy"
        /\ c.analysis.type = "array" /\ BooleanPosition(c.ctx) =>
             r.messageId =
               IF LogicalOperand(c.ctx) THEN "arrayInLogical" ELSE "arrayTruthy"
        /\ c.analysis.type = "object" /\ BooleanPosition(c.ctx) =>
             r.messageId =
               IF LogicalOperand(c.ctx) THEN "objectInLogical" ELSE "objectTruthy"

\* `{} || x`: the object literal is reported with objectInLogical
C14_Witness == handler = "LogicalExpression" /\ \E c \in Calls : c.node = Obj(<<>>) /\ OpOf(c.ctx.parent) = "||" /\ \E r \in Diagnoses(c) : r.messageId = "objectInLogical"

\* the replacement texts of a diagnosis' alternatives, in order
AlternativesOf(r) == [j \in DOMAIN r.suggest |-> r.suggest[j].text]

\* C15: a generic diagnosis on a node of source text E carries, for kinds
\* array and object, exactly two alternatives, first the kind's emptiness
\* rewrite and second `Boolean(E)`; for kind arraylike exactly one, the
\* `E.size > 0` rewrite.
C15_Alternatives ==
  \A c \in Calls : \A r \in Diagnoses(c) :
    IsGeneric(r) =>
      LET E == Render(r.node)
          kind == c.analysis.type
      IN  /\ \A j \in DOMAIN r.suggest : r.suggest[j].target = r.node
          /\ AlternativesOf(r) =
               IF kind = "arraylike" THEN <<E \o ".size > 0">>
               ELSE <<RewriteOf(kind, E), "Boolean(" \o E \o ")">>

\* `while (new Set()) {}`: one alternative, `new Set().size > 0`
C15_Witness == handler = "WhileStatement" /\ \E c \in Calls : \E r \in Diagnoses(c) : IsGeneric(r) /\ r.node = New(Ident("Set"), <<>>) /\ AlternativesOf(r) = <<"new Set().size > 0">>

\* the generateFix calls made
Fixes == {fixed[i] : i \in DOMAIN fixed}

\* C16: when the source text extracted for a node is empty or white space
\* only, generateFix returns that text unchanged, for every kind.
C16_BlankTextUnchanged ==
  \A f \in Fixes :
    Render(f.node) \in BlankTexts => f.text = Render(f.node)

\* the type-aware generateFix on a node of empty text, kind array
C16_Witness == \E f \in Fixes : impl = "typeaware" /\ f.node = Spanning("") /\ f.type = "array" /\ f.text = ".length > 0"

\* the enhanced generateFix returns blank text as it is
C16_EnhancedBlankTextUnchanged ==
  \A f \in Fixes :
    impl = "enhanced" /\ Render(f.node) \in BlankTexts => f.text = Render(f.node)

\* the boolean positions of a visited node S, each with the child it holds
PositionsOf(S) ==
  CASE S.type \in {"IfStatement", "WhileStatement", "DoWhileStatement",
                   "ForStatement", "ConditionalExpression"} ->
         IF S.test = NoNode THEN {} ELSE {<<"test", S.test>>}
    [] S.type = "LogicalExpression" /\ S.operator \in {"&&", "||"} ->
         {<<"left", S.left>>, <<"right", S.right>>}
    [] S.type = "UnaryExpression" /\ S.operator = "!" ->
         {<<"argument", S.argument>>}
    [] OTHER -> {}

\* classified, with its kind switched on, strong evidence, and neither
\* explicitly coerced nor guarded by a size check
Unsuppressed(c) ==
  /\ Classified(c)
  /\ config[KindOption(c.analysis.type)]
  /\ c.analysis.confidence >= 80
  /\ ~ExplicitCoercion(c.ctx)
  /\ ~SizeGuarded(c.ctx)

\* C17: the test of an if, while, do-while and for statement, the test of a
\* conditional expression, both operands of `&&` and `||` and the operand of
\* `!` are each examined, and a classifiable node there that no suppression
\* rule covers produces a diagnosis.
C17_PositionsExamined ==
  ~Idle =>
    \A p \in PositionsOf(site.S) :
      \E c \in Calls :
        /\ c.node = p[2]
        /\ c.ctx.parent = site.S /\ c.ctx.role = p[1]
        /\ Unsuppressed(c) => c.reports # <<>>

\* `![]` visited by the type-aware rule: no call, no diagnosis
C17_Witness == impl = "typeaware" /\ handler = "UnaryExpression" /\ site.S = Unary("!", Arr(<<>>)) /\ site.above = PlainAbove /\ checks = <<>>

\* the enhanced rule examines every position
C17_EnhancedPositionsExamined == impl = "enhanced" => C17_PositionsExamined

\* the type-aware rule examines every position but the operand of `!`
C17_TypeAwarePositionsExamined == impl = "typeaware" /\ handler # "UnaryExpression" => C17_PositionsExamined

\* the E of a visited `!E` inside `!!E`, or of a visited `Boolean(E)`
CoercedOperand(st) ==
  IF /\ st.S.type = "UnaryExpression" /\ OpOf(st.S) = "!"
     /\ st.above # <<>>
     /\ st.above[1].type = "UnaryExpression" /\ OpOf(st.above[1]) = "!"
  THEN st.S.argument
  ELSE IF /\ st.S.type = "CallExpression"
          /\ Fld(st.S, "callee") = Ident("Boolean")
          /\ Len(st.S.arguments) = 1
  THEN st.S.arguments[1]
  ELSE NoNode

\* the visit examined E and, if E is strongly classified with its kind
\* switched on, diagnosed it
DiagnosedIfClassified(E) ==
  \E c \in Calls :
    /\ c.node = E
    /\ Classified(c) /\ config[KindOption(c.analysis.type)]
         /\ c.analysis.confidence >= 80
         => c.reports # <<>>

\* C18: when allowExplicitBoolean is false, a classifiable expression E
\* written as `!!E` or as `Boolean(E)` produces a diagnosis on E.
C18_ExplicitCoercionDiagnosed ==
  ~Idle /\ ~config.allowExplicitBoolean /\ CoercedOperand(site) # NoNode =>
    DiagnosedIfClassified(CoercedOperand(site))

\* `!![]` visited by the type-aware rule with allowExplicitBoolean false: no
\* call, no diagnosis
C18_Witness == impl = "typeaware" /\ ~config.allowExplicitBoolean /\ config.checkArrays /\ handler = "UnaryExpression" /\ site.S = Unary("!", Arr(<<>>)) /\ CoercedOperand(site) = Arr(<<>>) /\ checks = <<>>

\* the enhanced rule diagnoses the E of `!!E`, the type-aware rule the E of
\* `Boolean(E)`
C18_EachRuleOneForm ==
  /\ impl = "enhanced" /\ handler = "UnaryExpression"
       => C18_ExplicitCoercionDiagnosed
  /\ impl = "typeaware" /\ handler = "CallExpression"
       => C18_ExplicitCoercionDiagnosed

\* `Name(...)` or `new Name(...)`
BareCall(n, name) ==
  n.type \in {"NewExpression", "CallExpression"} /\ Fld(n, "callee") = Ident(name)

\* `Obj.m(...)` for one of the method names
StaticCall(n, obj, names) ==
  /\ n.type = "CallExpression"
  /\ Fld(n, "callee").type = "MemberExpression"
  /\ ~n.callee.computed
  /\ n.callee.object = Ident(obj)
  /\ NameOf(n.callee.property) \in names

IsKind95(c, kind) == c.analysis.type = kind /\ c.analysis.confidence = 95

\* C19: a call to the bare identifier Array or Object, with or without
\* `new` and with any arguments, is classified array or object with
\* confidence 95; a call to Array.from or Array.of is classified array/95
\* and a call to Object.create, Object.assign, Object.fromEntries,
\* Object.keys, Object.values or Object.entries object/95 (here for the
\* nodes no type checker speaks of).
C19_ConstructorsAndStatics ==
  \A c \in Calls :
    NoTypeOracle(c) =>
      /\ BareCall(c.node, "Array") => IsKind95(c, "array")
      /\ BareCall(c.node, "Object") => IsKind95(c, "object")
      /\ StaticCall(c.node, "Array", {"from", "of"}) => IsKind95(c, "array")
      /\ StaticCall(c.node, "Object",
                    {"create", "assign", "fromEntries", "keys", "values",
                     "entries"}) => IsKind95(c, "object")

\* `if (Object.keys(x)) {}` in the type-aware rule: no classification
C19_Witness == \E c \in Calls : impl = "typeaware" /\ NoTypeOracle(c) /\ handler = "IfStatement" /\ c.node = Call(Member(Ident("Object"), Ident("keys")), <<Ident("x")>>) /\ c.analysis = Unknown /\ c.reports = <<>>

\* the enhanced rule classifies all of them; the type-aware rule all but
\* Object.keys, Object.values and Object.entries
C19_PerRule ==
  \A c \in Calls :
    NoTypeOracle(c) =>
      /\ BareCall(c.node, "Array") => IsKind95(c, "array")
      /\ BareCall(c.node, "Object") => IsKind95(c, "object")
      /\ StaticCall(c.node, "Array", {"from", "of"}) => IsKind95(c, "array")
      /\ StaticCall(c.node, "Object", {"create", "assign", "fromEntries"})
           => IsKind95(c, "object")
      /\ StaticCall(c.node, "Object", {"keys", "values", "entries"})
           => IF impl = "enhanced" THEN IsKind95(c, "object")
              ELSE c.analysis = Unknown

\* a call `R.m(...)` of one of the method names, on any receiver R
MethodCall(n, names) ==
  /\ n.type = "CallExpression"
  /\ Fld(n, "callee").type = "MemberExpression"
  /\ ~n.callee.computed
  /\ NameOf(n.callee.property) \in names

SortVariants == {"sort", "reverse", "toSorted", "toReversed"}
ArrayReturning ==
  {"map", "filter", "slice", "concat", "splice", "flat", "flatMap"}
    \cup SortVariants

\* C20: a call whose callee is a member access to map, filter, slice,
\* concat, splice, flat, flatMap, sort, reverse, toSorted or toReversed, on
\* any receiver, is classified array with confidence 85 (here for the nodes
\* no type checker speaks of).
C20_ArrayReturningMethods ==
  \A c \in Calls :
    NoTypeOracle(c) /\ MethodCall(c.node, ArrayReturning) =>
      c.analysis.type = "array" /\ c.analysis.confidence = 85

\* `if (arr.sort(v => v)) {}` in the enhanced rule: no classification
C20_Witness == \E c \in Calls : impl = "enhanced" /\ handler = "IfStatement" /\ c.node = Call(Member(Ident("arr"), Ident("sort")), <<Arrow>>) /\ c.analysis.type # "array" /\ c.reports = <<>>

\* the enhanced rule: array/85 for the seven methods of its list and
\* nothing for the sort variants; the type-aware rule: array/95 for all
\* eleven, on a receiver other than the identifier Array
C20_PerRule ==
  \A c \in Calls :
    NoTypeOracle(c) /\ MethodCall(c.node, ArrayReturning) =>
      IF impl = "enhanced"
      THEN IF NameOf(c.node.callee.property) \in SortVariants
           THEN ~Classified(c)
           ELSE c.analysis.type = "array" /\ c.analysis.confidence = 85
      ELSE IF c.node.callee.object = Ident("Array")
           THEN ~Classified(c)
           ELSE c.analysis.type = "array" /\ c.analysis.confidence = 95

\* a member access `o.p` or `o?.p`
DottedMember(n) == n.type = "MemberExpression" /\ ~n.computed /\ n.property.type = "Identifier"

RECURSIVE ReportsFrom(_)
ReportsFrom(i) ==
  IF i > Len(checks) THEN <<>> ELSE checks[i].reports \o ReportsFrom(i + 1)
AllReports == ReportsFrom(1)

\* C22: every offending node produces exactly one diagnosis: a handler
\* examines only children of the node it visits, each child once, and a
\* child gets at most one diagnosis, on itself; under the default
\* configuration `if ([]) {}` yields exactly one diagnosis with the rewrite
\* `[].length > 0` and `{} && g()` exactly one, on `{}`, with the rewrite
\* `Object.keys({}).length > 0`.
C22_OneDiagnosisPerNode ==
  ~Idle =>
    /\ \A i \in DOMAIN checks :
         /\ checks[i].ctx.parent = site.S
         /\ Len(checks[i].reports) <= 1
         /\ \A r \in Diagnoses(checks[i]) : r.node = checks[i].node
    /\ \A i, j \in DOMAIN checks :
         i # j => checks[i].ctx.role # checks[j].ctx.role
    /\ config = DefaultConfig /\ site = Site(Stmt("IfStatement", Arr(<<>>)), PlainAbove)
         => /\ Len(AllReports) = 1
            /\ AllReports[1].node = Arr(<<>>)
            /\ AllReports[1].fix = <<"[].length > 0">>
    /\ config = DefaultConfig
         /\ site = Site(Logical(Obj(<<>>), "&&", Call(Ident("g"), <<>>)), PlainAbove)
         => /\ Len(AllReports) = 1
            /\ AllReports[1].node = Obj(<<>>)
            /\ AllReports[1].fix = <<"Object.keys({}).length > 0">>

\* `{} && g()` was visited under the default configuration: two calls, one
\* diagnosis
C22_Witness == config = DefaultConfig /\ site = Site(Logical(Obj(<<>>), "&&", Call(Ident("g"), <<>>)), PlainAbove) /\ Len(checks) = 2 /\ Len(AllReports) = 1

ComparisonOperators == {">", ">=", "<", "<=", "==", "===", "!=", "!=="}

\* the node is the left operand of an `&&` whose right operand compares a
\* `.length`/`.size` with any operator, reads one, or is
\* `Object.keys(...).length`
SizeChecked(ctx) ==
  /\ ctx.parent.type = "LogicalExpression"
  /\ OpOf(ctx.parent) = "&&"
  /\ ctx.role = "left"
  /\ \/ SizeAccess(ctx.parent.right)
     \/ /\ ctx.parent.right.type = "BinaryExpression"
        /\ OpOf(ctx.parent.right) \in ComparisonOperators
        /\ SizeAccess(ctx.parent.right.left)

\* C23: a classified node that is the left operand of `&&` gets no
\* diagnosis whenever the right operand is a comparison on a `.length` or
\* `.size` access, with any comparison operator, a bare `.length`/`.size`
\* access, or an `Object.keys(...).length` expression (the enhanced rule's
\* isProperValidationPattern).
C23_SizeCheckSuppresses ==
  \A c \in Calls :
    impl = "enhanced" /\ Classified(c) /\ SizeChecked(c.ctx) => c.reports = <<>>

\* `[] && [].length === 0`: the enhanced rule reports the left operand
C23_Witness == \E c \in Calls : impl = "enhanced" /\ c.node = Arr(<<>>) /\ c.ctx.role = "left" /\ c.ctx.parent = Logical(Arr(<<>>), "&&", Binary(Member(Arr(<<>>), Ident("length")), "===", Lit("0"))) /\ c.reports # <<>>

\* with `>` or `>=`, a bare access or Object.keys(...).length the left
\* operand is never reported
C23_GreaterSuppresses ==
  \A c \in Calls :
    impl = "enhanced" /\ Classified(c) /\ SizeGuarded(c.ctx) => c.reports = <<>>

\* C24: only operands of `&&` and `||` count as logical-expression boolean
\* positions: an operand of any other logical operator (`??`) is never
\* classified and never produces a diagnosis.
C24_OnlyAndOr ==
  handler = "LogicalExpression" /\ OpOf(site.S) \notin {"&&", "||"} =>
    checks = <<>>

\* `[] ?? g()`: the enhanced rule classifies and reports the left operand
C24_Witness == impl = "enhanced" /\ handler = "LogicalExpression" /\ site.S = Logical(Arr(<<>>), "??", Call(Ident("g"), <<>>)) /\ \E c \in Calls : c.node = Arr(<<>>) /\ c.analysis.type = "array" /\ \E r \in Diagnoses(c) : r.messageId = "arrayInLogical"

\* the type-aware rule leaves the operands of `??` alone
C24_TypeAwareOnlyAndOr == impl = "typeaware" => C24_OnlyAndOr

\* `Set(...)`/`Map(...)`, with or without `new`, whose one argument is an
\* array literal of one element
SuspiciousShape(n) ==
  /\ n.type \in {"NewExpression", "CallExpression"}
  /\ Fld(n, "callee").type = "Identifier"
  /\ NameOf(Fld(n, "callee")) \in {"Set", "Map"}
  /\ Len(n.arguments) = 1
  /\ n.arguments[1].type = "ArrayExpression"
  /\ Len(n.arguments[1].elements) = 1

\* C25: the specialized diagnosis is given only to a call of `Set` or `Map`
\* with exactly one argument that is an array literal with exactly one
\* element: no other callee, WeakSet and WeakMap included, and no other
\* argument shape yields it; and a node of that shape, when reported with
\* its element present, gets the specialized diagnosis.
C25_SuspiciousExactly ==
  \A c \in Calls :
    /\ \A r \in Diagnoses(c) : IsSpecialized(r) => SuspiciousShape(c.node)
    /\ SuspiciousShape(c.node) /\ c.node.arguments[1].elements[1] # NoNode
         /\ c.reports # <<>> /\ c.ctx.parent.type # "CallExpression"
         => IsSpecialized(c.reports[1])

\* `if (new WeakSet([x])) {}`: the enhanced rule gives the specialized diagnosis
C25_Witness == \E c \in Calls : impl = "enhanced" /\ handler = "IfStatement" /\ c.node = New(Ident("WeakSet"), <<Arr(<<Ident("x")>>)>>) /\ c.reports # <<>> /\ IsSpecialized(c.reports[1])

\* in the type-aware rule the specialized diagnosis goes to Set and Map only
C25_TypeAwareSuspiciousExactly == impl = "typeaware" => C25_SuspiciousExactly

\* the confidence ceiling of each evidence kind, by the `method` the rules
\* write for it
EvidenceKinds ==
  {"typescript", "literal", "constructor", "static", "method", "member-property",
   "variable-name", "variable-pattern", "naming"}
Ceiling(method) ==
  CASE method \in {"typescript", "literal"} -> 100
    [] method \in {"constructor", "static"} -> 95
    [] method \in {"method", "variable-name"} -> 85
    [] method = "member-property" -> 75
    [] method \in {"variable-pattern", "naming"} -> 65

\* C26: every classification other than none carries an evidence kind of
\* the fixed set, and its confidence never exceeds the ceiling of that kind:
\* oracle 100, literal 100, constructor 95, static method 95, instance
\* method 85, property name 75, exact variable name 85, variable-name
\* pattern 65.
C26_EvidenceCeilings ==
  \A c \in Calls :
    Classified(c) =>
      /\ c.analysis.method \in EvidenceKinds
      /\ c.analysis.confidence <= Ceiling(c.analysis.method)

\* `if (new Set([x])) {}` in the enhanced rule: arraylike/90 with no evidence kind
C26_Witness == \E c \in Calls : impl = "enhanced" /\ c.node = New(Ident("Set"), <<Arr(<<Ident("x")>>)>>) /\ c.analysis.type = "arraylike" /\ c.analysis.confidence = 90 /\ c.analysis.method = NoName

\* every classification but the enhanced rule's single-element one carries
\* an evidence kind and keeps under its ceiling
C26_CeilingsButSuspicious ==
  \A c \in Calls :
    Classified(c) /\ ~c.analysis.suspicious =>
      /\ c.analysis.method \in EvidenceKinds
      /\ c.analysis.confidence <= Ceiling(c.analysis.method)

\* the minimum the rule that made the call asks of a classification
Minimum(c) ==
  IF impl = "enhanced" THEN minConfidence(c.analysis.method)
  ELSE IF c.ctx.parent.type = "CallExpression" THEN 51
  ELSE IF c.analysis.method = "naming" THEN 50
  ELSE 0

\* a rule other than the confidence threshold keeps the call from reporting:
\* the kind is switched off, the validation idiom, explicit coercion
SuppressedOtherwise(c) ==
  IF impl = "enhanced"
  THEN \/ ~shouldCheck(c.analysis.type, config)
       \/ isProperValidationPattern(c.ctx)
       \/ config.allowExplicitBoolean /\ isInExplicitBooleanContext(c.ctx)
  ELSE IF c.ctx.parent.type = "CallExpression"
  THEN ~L_shouldCheck(c.analysis.type, config)
  ELSE \/ config.allowExplicitBoolean /\ isInExplicitBooleanContext(c.ctx)
       \/ /\ ~L_shouldCheck(c.analysis.type, config)
          /\ ~hasSuspiciousCollectionPattern(c.node).isSuspicious

\* C27: every classification the classifier produces has a confidence at or
\* above the minimum reportIssue asks for its evidence kind (member-property
\* 70, variable-pattern 65, all others 60; naming 50 in the type-aware
\* rule), so the threshold never suppresses a diagnosis: a classified node
\* that no other rule suppresses is reported.
C27_ThresholdNeverSuppresses ==
  \A c \in Calls :
    Classified(c) =>
      /\ c.analysis.confidence >= Minimum(c)
      /\ ~SuppressedOtherwise(c) => c.reports # <<>>

\* `if (user.items) {}` in the enhanced rule: array/75, minimum 70, reported
C27_Witness == \E c \in Calls : impl = "enhanced" /\ c.node = Member(Ident("user"), Ident("items")) /\ c.analysis.confidence = 75 /\ Minimum(c) = 70 /\ c.reports # <<>>

\* the text of the examined node after `eslint --fix` applied the primary
\* fixes of its diagnoses
AutoFixed(c) ==
  IF c.reports # <<>> /\ c.reports[1].fix # <<>> THEN c.reports[1].fix[1]
  ELSE Render(c.node)

\* C28: a diagnosis carries a primary fix if and only if it is a generic
\* diagnosis; the specialized single-element diagnosis offers its three
\* alternatives only, so that applying the fixes leaves a `new Set([x])` or
\* `new Map([x])` test as it is.
C28_FixIffGeneric ==
  \A c \in Calls :
    /\ \A r \in Diagnoses(c) :
         /\ r.fix # <<>> <=> IsGeneric(r)
         /\ SuspiciousShape(c.node) /\ ~IsGeneric(r) /\ c.ctx.parent.type # "CallExpression"
              => r.fix = <<>> /\ Len(r.suggest) = 3
    /\ SingletonCollection(c.node) => AutoFixed(c) = Render(c.node)

\* `if (new Map([x])) {}` was reported: no primary fix, three alternatives
C28_Witness == \E c \in Calls : handler = "IfStatement" /\ c.node = New(Ident("Map"), <<Arr(<<Ident("x")>>)>>) /\ c.reports # <<>> /\ c.reports[1].fix = <<>> /\ Len(c.reports[1].suggest) = 3 /\ AutoFixed(c) = "new Map([x])"

(***************************************************************************)
(* The fix is a replacement of text: the node's text followed by           *)
(* `.length > 0` or `.size > 0`, or wrapped in `Object.keys(...)`.  What   *)
(* the parser makes of the new text depends on the node: after a member,   *)
(* call, `new`, identifier or literal the suffix applies to the whole      *)
(* node; after a logical, binary or unary expression it applies to the     *)
(* last operand.                                                           *)
(***************************************************************************)
RECURSIVE PushAccess(_, _), PushCompare(_)

\* the parse of Render(n) \o "." \o prop
PushAccess(n, prop) ==
  IF n.type \in {"LogicalExpression", "BinaryExpression"}
  THEN [n EXCEPT !.right = PushAccess(n.right, prop)]
  ELSE IF n.type = "UnaryExpression"
  THEN [n EXCEPT !.argument = PushAccess(n.argument, prop)]
  ELSE Member(n, Ident(prop))

\* the parse of Render(n) \o " > 0"
PushCompare(n) ==
  IF \/ n.type = "LogicalExpression"
     \/ n.type = "BinaryExpression" /\ n.operator \in {"==", "===", "!=", "!=="}
  THEN [n EXCEPT !.right = PushCompare(n.right)]
  ELSE Binary(n, ">", Lit("0"))

\* the parse of the text before the comparison, and of the whole rewrite
AccessPart(E, kind) ==
  CASE kind = "array" -> PushAccess(E, "length")
    [] kind = "object" ->
         Member(Call(Member(Ident("Object"), Ident("keys")), <<E>>), Ident("length"))
    [] kind = "arraylike" -> PushAccess(E, "size")
Reparsed(E, kind) == PushCompare(AccessPart(E, kind))

\* the visited node after the fix of its child in `role`: under `!` the
\* comparison applies to the `!` expression, which keeps the access part
Fixed(S, role, E, kind) ==
  IF S.type = "UnaryExpression" THEN [S EXCEPT !.argument = AccessPart(E, kind)]
  ELSE [S EXCEPT ![role] = Reparsed(E, kind)]

\* what the type checker can say of a comparison or of a union with one: no
\* collection type
BooleanAnswers ==
  IF hasTypeInfo THEN {NoTsNode, Throws, Oracle("type", NumberT)} ELSE {Unavailable}

Quiet(cs) == \A i \in DOMAIN cs : cs[i].reports = <<>>

\* no visit of a logical or `!` expression inside n reports, whatever the
\* type checker answers for the operands
RECURSIVE InnerQuiet(_, _)
InnerQuiet(n, above) ==
  CASE n.type = "LogicalExpression" ->
         /\ \A oL \in Answers(n.left, hasTypeInfo), oR \in Answers(n.right, hasTypeInfo) :
              Quiet(RunHandler(impl, config, "LogicalExpression",
                               BoundSite(n, above, site.binding), <<oL, oR>>))
         /\ InnerQuiet(n.left, <<n>> \o above)
         /\ InnerQuiet(n.right, <<n>> \o above)
    [] n.type = "UnaryExpression" ->
         /\ Quiet(RunHandler(impl, config, "UnaryExpression",
                             BoundSite(n, above, site.binding), <<>>))
         /\ InnerQuiet(n.argument, <<n>> \o above)
    [] n.type = "BinaryExpression" ->
         InnerQuiet(n.left, <<n>> \o above) /\ InnerQuiet(n.right, <<n>> \o above)
    [] n.type = "MemberExpression" -> InnerQuiet(n.object, <<n>> \o above)
    [] OTHER -> TRUE

\* the rule run again on the visited node after the fix of call i: the
\* handler of the visited node reports nothing for the rewritten child, and
\* no handler reports inside it
QuietAfterFix(i) ==
  LET c == checks[i]
      S2 == Fixed(site.S, c.ctx.role, c.node, c.analysis.type)
      N == IF site.S.type = "UnaryExpression" THEN S2.argument ELSE S2[c.ctx.role]
  IN  /\ \A o \in BooleanAnswers :
           LET again == RunHandler(impl, config, handler, [site EXCEPT !.S = S2],
                                   [j \in DOMAIN checks |->
                                      IF j = i THEN o ELSE checks[j].oracle])
           IN  \A j \in DOMAIN again :
                 again[j].ctx.role = c.ctx.role => again[j].reports = <<>>
      /\ InnerQuiet(N, <<S2>> \o site.above)

\* C29: applying the primary rewrite of a generic diagnosis yields an
\* expression that produces no diagnosis when the rule runs again under the
\* same configuration, for every kind, every evidence tier and every
\* boolean position; the expression is the one the rewritten text parses to.
C29_FixIsFixpoint ==
  \A i \in DOMAIN checks :
    \A r \in Diagnoses(checks[i]) :
      IsGeneric(r) =>
        /\ Render(Reparsed(r.node, checks[i].analysis.type)) = r.fix[1]
        /\ QuietAfterFix(i)

\* `if (x || rest) {}` with `x || rest` of an array type: reported, rewritten to
\* `x || rest.length > 0`
C29_Witness == impl = "typeaware" /\ handler = "IfStatement" /\ \E c \in Calls : c.node = Logical(Ident("x"), "||", Ident("rest")) /\ c.oracle = Oracle("type", ArrayT) /\ \E r \in Diagnoses(c) : r.fix = <<"x || rest.length > 0">>

\* for the enhanced rule, which classifies only nodes that bind tighter
\* than the suffix, the rewrite is a fixpoint
C29_EnhancedFixIsFixpoint == impl = "enhanced" => C29_FixIsFixpoint

\* so it is for the type-aware rule on every node but a logical expression
C29_TypeAwareFixIsFixpoint ==
  \A i \in DOMAIN checks :
    \A r \in Diagnoses(checks[i]) :
      IsGeneric(r) /\ r.node.type # "LogicalExpression" => QuietAfterFix(i)

\* the rule flagged the examined node as the single-element shape
Flagged(c) ==
  IF impl = "enhanced" THEN c.analysis.suspicious
  ELSE /\ hasSuspiciousCollectionPattern(c.node).isSuspicious
       /\ c.ctx.parent.type # "CallExpression"

\* C30: whenever a node is flagged as the suspicious single-element shape
\* and is reported, the report is the specialized diagnosis and never the
\* generic one, for every form of the single element, an elision (hole)
\* and a spread element included.
C30_FlaggedIsSpecialized ==
  \A c \in Calls :
    Flagged(c) =>
      \A r \in Diagnoses(c) : IsSpecialized(r) /\ ~IsGeneric(r)

\* `if (new Set([,])) {}` in the enhanced rule: flagged, and reported with
\* the generic arraylike diagnosis
C30_Witness == \E c \in Calls : impl = "enhanced" /\ c.node = New(Ident("Set"), <<Arr(<<NoNode>>)>>) /\ c.analysis.suspicious /\ \E r \in Diagnoses(c) : r.messageId = "arrayLikeTruthy" /\ r.fix = <<"new Set([,]).size > 0">>

\* with the element present, a spread included, the enhanced rule gives the
\* specialized diagnosis; the type-aware rule gives it for a hole too
C30_PerRule ==
  \A c \in Calls :
    Flagged(c) /\ (impl = "typeaware" \/ c.analysis.element # NoNode) =>
      \A r \in Diagnoses(c) : IsSpecialized(r) /\ ~IsGeneric(r)

====
